---- MODULE Spec2Model ----
(***************************************************************************)
(* Compass automation: the per-vehicle PM work-item flow                   *)
(* (handle_pm_workitems and the functions it calls) driven by the main     *)
(* loop of the command-line entry point.                                   *)
(*                                                                         *)
(* The browser is an external collaborator.  Every DOM query and element   *)
(* operation has the outcomes Selenium can produce: a value, or one of the *)
(* exceptions in its hierarchy.  The model draws the outcome of each call  *)
(* with \E and follows the Python control flow (try/except included) from *)
(* there.                                                                  *)
(***************************************************************************)
EXTENDS Integers, Sequences, FiniteSets, TLC

(***************************************************************************)
(* Bounds of the model.                                                    *)
(***************************************************************************)
MaxMvas == 2
MaxTiles == 2
MaxDepth == 5
MaxPollRounds == 2
MaxDriverCalls == 4
MaxLines == 2
MaxWorkflowCalls == 2

MvaIds == {"A1", "A2"}

(***************************************************************************)
(* Texts are sequences of characters, so that contains() / `in` and the    *)
(* exact comparisons of the locators are computed, not assumed.            *)
(***************************************************************************)
txtPM == <<"P", "M">>
txtPMHardHold == <<"P", "M", " ", "H", "a", "r", "d", " ", "H", "o", "l", "d", " ", "-", " ", "P", "M">>
txtPMGas == <<"P", "M", " ", "G", "a", "s">>
txtOpen == <<"O", "p", "e", "n">>
txtComplete == <<"C", "o", "m", "p", "l", "e", "t", "e">>
txtTires == <<"T", "i", "r", "e", "s">>
txtPMService == <<"P", "M", " ", "S", "e", "r", "v", "i", "c", "e">>
txtPMGasPadded == <<"P", "M", " ", " ", "G", "a", "s">>

\* XPath contains(haystack, needle) and Python's `needle in haystack`.
Contains(s, sub) ==
    \E i \in 1..(Len(s) - Len(sub) + 1) : SubSeq(s, i, i + Len(sub) - 1) = sub

RECURSIVE Collapse(_)
\* Collapse every run of spaces of s into one space.
Collapse(s) ==
    IF Len(s) < 2 THEN s
    ELSE IF s[1] = " " /\ s[2] = " " THEN Collapse(Tail(s))
    ELSE <<s[1]>> \o Collapse(Tail(s))

\* XPath normalize-space(): strip leading and trailing whitespace and
\* collapse inner runs.
NormalizeSpace(s) ==
    LET c == Collapse(s)
        l == IF Len(c) > 0 /\ c[1] = " " THEN Tail(c) ELSE c
    IN  IF Len(l) > 0 /\ l[Len(l)] = " " THEN SubSeq(l, 1, Len(l) - 1) ELSE l

\* All sequences over S of length at most n.
SeqsUpTo(S, n) == UNION {[1..k -> S] : k \in 0..n}

(***************************************************************************)
(* The DOM fragments the flow reads.                                       *)
(***************************************************************************)
WorkItemTitles == {txtPM, txtPMHardHold, txtPMService, txtTires}
WorkItemStates == {txtOpen, txtComplete}
WorkItemTiles == [title : WorkItemTitles, state : WorkItemStates]
ComplaintTexts == {txtPM, txtPMHardHold, txtTires}
OpcodeLabels == {txtPMGas, txtPMGasPadded, txtPMService}

\* The lists a query of the page can return, MaxTiles elements at most.
WorkItemLists == SeqsUpTo(WorkItemTiles, MaxTiles)
ComplaintLists == SeqsUpTo(ComplaintTexts, MaxTiles)
OpcodeLists == SeqsUpTo(OpcodeLabels, MaxTiles)

(***************************************************************************)
(* Outcomes of the Selenium calls.                                         *)
(***************************************************************************)
NoSuchElement == "NoSuchElementException"
Stale == "StaleElementReferenceException"
Timeout == "TimeoutException"
WebDriverError == "WebDriverException"

\* driver.find_elements: a (possibly empty) list, or an error of the session.
FindOutcomes == {"found", NoSuchElement, WebDriverError}
\* an operation on an element handle: click(), clear(), send_keys(), .text
ElementOutcomes == {"done", Stale, WebDriverError}
\* WebDriverWait(...).until(condition)
WaitOutcomes == {"element", Timeout, WebDriverError}

(***************************************************************************)
(* Flow Results.                                                           *)
(***************************************************************************)
NoResult == [none |-> TRUE]
Failed(reason, mva) == [status |-> "failed", reason |-> reason, mva |-> mva]
Get(res, key, default) == IF key \in DOMAIN res THEN res[key] ELSE default

(***************************************************************************)
(* click_element: locate and click, one retry when the handle is stale.    *)
(* w1, c1 are the outcomes of the first wait and click, w2, c2 those of    *)
(* the retry.  `clicks` counts the el.click() calls made.                  *)
(***************************************************************************)
\* Faulty variant: the retry is made after every failed click.
click_element_retries_any(w1, c1, w2, c2) ==
    IF w1 # "element" THEN [ok |-> FALSE, clicks |-> 0]
    ELSE IF c1 = "done" THEN [ok |-> TRUE, clicks |-> 1]
    ELSE IF w2 # "element" THEN [ok |-> FALSE, clicks |-> 1]
    ELSE IF c2 = "done" THEN [ok |-> TRUE, clicks |-> 2]
    ELSE [ok |-> FALSE, clicks |-> 2]

click_element(w1, c1, w2, c2) ==
    IF w1 # "element" THEN [ok |-> FALSE, clicks |-> 0]
    ELSE IF c1 = "done" THEN [ok |-> TRUE, clicks |-> 1]
    ELSE IF c1 = Stale THEN
        IF w2 # "element" THEN [ok |-> FALSE, clicks |-> 1]
        ELSE IF c2 = "done" THEN [ok |-> TRUE, clicks |-> 2]
        ELSE [ok |-> FALSE, clicks |-> 2]
    ELSE [ok |-> FALSE, clicks |-> 1]

ClickOutcomes == WaitOutcomes \X ElementOutcomes \X WaitOutcomes \X ElementOutcomes
Click(o) == click_element(o[1], o[2], o[3], o[4]).ok
\* The values click_element can return.
ClickResults == {Click(o) : o \in ClickOutcomes}

(***************************************************************************)
(* State.                                                                  *)
(***************************************************************************)
VARIABLES
    mvas,       \* the list load_mvas returned
    idx,        \* number of vehicles whose iteration has started
    pc,         \* position of the single thread of control
    retpc,      \* where the function being executed returns to
    started,    \* vehicles of the '>>> Starting MVA <id>' markers, in order
    trace,      \* calls and UI actions of the current vehicle, in order
    results,    \* last Flow Result each function returned for this vehicle
    escaped,    \* functions an exception propagated out of, this vehicle
    workItems,  \* work-item tiles (scan-record-header) currently in the DOM
    items,      \* what get_work_items returned to handle_pm_workitems
    complaints, \* complaint tiles the resolver's query returned
    pmTiles,    \* pm_tiles of associate_existing_complaint
    clickedTile, \* position (in complaints) of the tile clicked, 0 if none
    tileState,  \* what the resolver's tile search found, "none" before it
    uiFailed,   \* some UI action of this vehicle failed or raised
    navI,       \* loop counter of navigate_back_to_home
    depth,      \* screens between the current screen and the home screen
    call,       \* the last call of a helper made on its own: inputs and outcome
    driver,     \* driver_manager._driver: the singleton handle, NoDriver for None
    sessions,   \* browser sessions created on which quit() was not called yet
    created,    \* number of browser sessions created so far
    driverCalls, \* the calls made to the driver manager, in order
    execution_history, \* the executions the workflow executor has kept
    fixtureDriver, \* the handle the `driver` fixture holds between setup and teardown
    monitor,    \* the PerformanceMonitor: metrics, active_metrics, resource thread
    watch       \* the PR watcher: seen keys, events printed, events on the server

vars == <<mvas, idx, pc, retpc, started, trace, results, escaped, workItems,
          items, complaints, pmTiles, clickedTile, tileState, uiFailed, navI,
          depth, call, driver, sessions, created, driverCalls,
          execution_history, fixtureDriver, monitor, watch>>

\* The state of the helpers exercised on their own.
driverVars == <<driver, sessions, created, driverCalls, fixtureDriver>>
toolVars == <<monitor, watch>>
unitVars == <<call, driverVars, execution_history, toolVars>>
NoCall == [fn |-> "none"]

\* PerformanceMonitor.__init__: no metric finished, none active, no resource
\* monitoring.  `started` counts the PerformanceMetric objects created, so
\* that each one has an identity; `threads` holds the position of every
\* monitor_resources thread created, in order of creation.
PerformanceMonitor ==
    [metrics |-> <<>>, active_metrics |-> <<>>, started |-> 0,
     monitoring |-> FALSE, resource_thread |-> 0, resource_data |-> 0,
     threads |-> <<>>, main |-> "idle", late_samples |-> 0]

\* The watcher before main() of watch_pr.py has started.
NotWatching == [phase |-> "seed", seen |-> {}, printed |-> <<>>, server |-> {},
                existing |-> {}, polls |-> 0]
NoDriver == 0

\* The functions whose return value the model records.
FlowFns == {"handle_pm_workitems", "associate_existing_complaint",
            "complete_mileage_dialog", "select_opcode", "finalize_workitem",
            "complete_pm_workitem", "open_pm_workitem_card",
            "mark_complete_pm_workitem", "complete_work_item_dialog",
            "navigate_back_to_home"}

NoResults == [f \in FlowFns |-> NoResult]

mva == mvas[idx]

Init ==
    /\ mvas \in SeqsUpTo(MvaIds, MaxMvas)
    /\ idx = 0
    /\ pc = "main"
    /\ retpc = "none"
    /\ started = <<>>
    /\ trace = <<>>
    /\ results = NoResults
    /\ escaped = {}
    /\ workItems = <<>>
    /\ items = <<>>
    /\ complaints = <<>>
    /\ pmTiles = <<>>
    /\ clickedTile = 0
    /\ tileState = "none"
    /\ uiFailed = FALSE
    /\ navI = 0
    /\ depth = 0
    /\ call = NoCall
    /\ driver = NoDriver
    /\ sessions = {}
    /\ created = 0
    /\ driverCalls = <<>>
    /\ execution_history = <<>>
    /\ fixtureDriver = NoDriver
    /\ monitor = PerformanceMonitor
    /\ watch = NotWatching

domVars == <<workItems, items, complaints, pmTiles, clickedTile, tileState>>
flowVars == <<retpc, trace, results, escaped, domVars, uiFailed, navI, depth>>
mainVars == <<mvas, idx, started>>

(***************************************************************************)
(* main(): login, load the list, then one iteration per vehicle.           *)
(***************************************************************************)
\* Faulty variant: the loop body is entered once although the list is empty.
main_after_load_enters_body(list) == IF list = <<>> THEN "enter_mva" ELSE "loop"

\* main.py 44-46: `if not mvas: return`, else the loop.
main_after_load(list) == IF list = <<>> THEN "returned" ELSE "loop"

\* main.py 14-46: login, then the check of the loaded list.
main_start ==
    /\ pc = "main"
    /\ UNCHANGED unitVars
    /\ \E login \in {"ok", "failed"} :
        pc' = IF login # "ok" THEN "returned"
              ELSE main_after_load(mvas)
    /\ UNCHANGED <<mvas, idx, started>>
    /\ UNCHANGED flowVars

\* main.py 49-52: the head of `for mva in mvas` and the start marker.
main_next_mva ==
    /\ pc = "loop"
    /\ UNCHANGED unitVars
    /\ IF idx < Len(mvas)
       THEN /\ idx' = idx + 1
            /\ started' = Append(started, mvas[idx + 1])
            /\ pc' = "enter_mva"
       ELSE /\ pc' = "complete"
            /\ UNCHANGED <<idx, started>>
    /\ trace' = <<>>
    /\ results' = NoResults
    /\ escaped' = {}
    /\ workItems' = <<>>
    /\ items' = <<>>
    /\ complaints' = <<>>
    /\ pmTiles' = <<>>
    /\ clickedTile' = 0
    /\ tileState' = "none"
    /\ uiFailed' = FALSE
    /\ UNCHANGED <<mvas, retpc, navI, depth>>

\* main.py 55-68: find the input field, type the MVA, check it is known.
\* find_input swallows every exception; field.clear()/send_keys() and the
\* wait of is_mva_known (which catches TimeoutException only) do not.
main_enter_mva ==
    /\ pc = "enter_mva"
    /\ UNCHANGED unitVars
    /\ \E field \in BOOLEAN, typed \in ElementOutcomes, known \in WaitOutcomes :
        IF ~field THEN
            /\ pc' = "loop"
            /\ UNCHANGED <<trace, escaped>>
        ELSE IF typed # "done" THEN
            /\ pc' = "aborted"
            /\ escaped' = {"main"}
            /\ UNCHANGED trace
        ELSE IF known = Timeout THEN
            /\ pc' = "loop"
            /\ UNCHANGED <<trace, escaped>>
        ELSE IF known # "element" THEN
            /\ pc' = "aborted"
            /\ escaped' = {"main"}
            /\ UNCHANGED trace
        ELSE
            /\ pc' = "hpw_get_work_items"
            /\ trace' = <<"call handle_pm_workitems">>
            /\ UNCHANGED escaped
    /\ UNCHANGED <<mainVars, retpc, results, domVars, uiFailed, navI, depth>>

(***************************************************************************)
(* Helpers of the flow actions.                                            *)
(***************************************************************************)
Raised(r) == "raise" \in DOMAIN r
\* A trace entry: a step of the flow and how it ended.
Ev(step, outcome) == step \o ": " \o outcome
SetResult(fn, r) == [results EXCEPT ![fn] = r]
SetResults2(f1, r1, f2, r2) == [results EXCEPT ![f1] = r1, ![f2] = r2]
SetResults3(f1, r1, f2, r2, f3, r3) == [results EXCEPT ![f1] = r1, ![f2] = r2, ![f3] = r3]

(***************************************************************************)
(* get_work_items: the tiles that are open PM work items.                  *)
(***************************************************************************)
\* The divs of a tile whose class contains 'scan-record-header-title': the
\* title div and the 'scan-record-header-title-right__' div.
TitleClassTexts(t) == {t.title, t.state}

\* The XPath predicate of get_work_items.
IsOpenPMItem(t) ==
    /\ \E d \in TitleClassTexts(t) : Contains(NormalizeSpace(d), txtPM)
    /\ NormalizeSpace(t.state) = txtOpen

\* find: outcome of driver.find_elements; tiles: the DOM; text: outcome of
\* reading t.text in the logging loop.  Only NoSuchElementException is caught.
get_work_items(find, tiles, text) ==
    IF find = NoSuchElement THEN [ret |-> <<>>]
    ELSE IF find # "found" THEN [raise |-> find]
    ELSE LET open == SelectSeq(tiles, IsOpenPMItem)
         IN  IF open # <<>> /\ text # "done" THEN [raise |-> text]
             ELSE [ret |-> open]

(***************************************************************************)
(* handle_pm_workitems, step 1: query the open PM work items and branch.   *)
(***************************************************************************)
\* Faulty variant: completes only when more than one open item was found.
handle_pm_workitems_branch_needs_two(its) == IF Len(its) > 1 THEN "complete" ELSE "add"

\* `if items:` (a non-empty list is truthy)
handle_pm_workitems_branch(its) == IF its # <<>> THEN "complete" ELSE "add"

hpw_get_work_items ==
    /\ pc = "hpw_get_work_items"
    /\ UNCHANGED unitVars
    /\ \E find \in FindOutcomes :
       \E tiles \in (IF find = "found" THEN WorkItemLists ELSE {<<>>}) :
       \E text \in (IF SelectSeq(tiles, IsOpenPMItem) # <<>> THEN ElementOutcomes
                    ELSE {"done"}) :
        LET r == get_work_items(find, tiles, text) IN
        IF Raised(r) THEN
            \* no handler in get_work_items, handle_pm_workitems or main
            /\ pc' = "aborted"
            /\ escaped' = {"get_work_items", "handle_pm_workitems", "main"}
            /\ trace' = Append(trace, Ev("get_work_items", "raised"))
            /\ uiFailed' = TRUE
            /\ UNCHANGED <<retpc, workItems, items>>
        ELSE IF handle_pm_workitems_branch(r.ret) = "complete" THEN
            \* `if items:` -> return complete_pm_workitem(driver, mva)
            /\ pc' = "cpw_open_card"
            /\ retpc' = "hpw_return_completion"
            /\ workItems' = tiles
            /\ items' = r.ret
            /\ trace' = trace \o <<Ev("get_work_items", "ok"), "call complete_pm_workitem">>
            /\ UNCHANGED <<escaped, uiFailed>>
        ELSE
            /\ pc' = "hpw_add_work_item"
            /\ workItems' = <<>>
            /\ items' = r.ret
            /\ trace' = Append(trace, Ev("get_work_items", "ok"))
            /\ uiFailed' = (find # "found")
            /\ UNCHANGED <<escaped, retpc>>
    /\ UNCHANGED <<mainVars, results, complaints, pmTiles, clickedTile, tileState,
                   navI, depth>>

\* Faulty variant: the failed click is reported as a skip.
add_btn_failed_as_skip(m) == [status |-> "skipped_no_complaint", mva |-> m]

\* Lines 118-120: the result when 'Add Work Item' could not be clicked.
add_btn_failed(m) == Failed("add_btn", m)

\* handle_pm_workitems, step 2: click 'Add Work Item'.
hpw_add_work_item ==
    /\ pc = "hpw_add_work_item"
    /\ UNCHANGED unitVars
    /\ \E clicked \in ClickResults :
        IF clicked THEN
            /\ pc' = "aec_find_tiles"
            /\ trace' = trace \o <<Ev("click Add Work Item", "ok"),
                                   "call associate_existing_complaint">>
            /\ UNCHANGED <<results, uiFailed>>
        ELSE
            /\ pc' = "main_result"
            /\ trace' = trace \o <<Ev("click Add Work Item", "failed"),
                                   "return handle_pm_workitems">>
            /\ results' = SetResult("handle_pm_workitems", add_btn_failed(mva))
            /\ uiFailed' = TRUE
    /\ UNCHANGED <<mainVars, retpc, escaped, domVars, navI, depth>>

(***************************************************************************)
(* The Complaint Resolver: associate_existing_complaint.                   *)
(***************************************************************************)
PMLabels == {txtPM, txtPMHardHold}
IsPMComplaint(t) == \E label \in PMLabels : Contains(t.text, label)

\* The tiles with their position in the query's result.
Positioned(texts) == [i \in 1..Len(texts) |-> [pos |-> i, text |-> texts[i]]]

\* _find_pm_complaint_tiles: (pm_tiles, early_return); any exception of the
\* query or of reading a tile's text is reported as tile_search.
find_pm_complaint_tiles(find, texts, text, m) ==
    IF find # "found" THEN [pm |-> <<>>, early |-> Failed("tile_search", m)]
    ELSE IF texts = <<>> THEN
        [pm |-> <<>>, early |-> [status |-> "skipped_no_complaint", mva |-> m]]
    ELSE IF text # "done" THEN [pm |-> <<>>, early |-> Failed("tile_search", m)]
    ELSE LET pm == SelectSeq(Positioned(texts), IsPMComplaint)
         IN  IF pm = <<>>
             THEN [pm |-> <<>>, early |-> [status |-> "skipped_no_complaint", mva |-> m]]
             ELSE [pm |-> pm, early |-> NoResult]

\* Return of associate_existing_complaint to handle_pm_workitems.
AecReturn(res) ==
    /\ pc' = "hpw_after_aec"
    /\ results' = [results EXCEPT !["associate_existing_complaint"] = res]

\* Phase 1: find and filter the PM complaint tiles.
aec_find_tiles ==
    /\ pc = "aec_find_tiles"
    /\ UNCHANGED unitVars
    /\ \E find \in FindOutcomes :
       \E texts \in (IF find = "found" THEN ComplaintLists ELSE {<<>>}) :
       \E text \in (IF texts # <<>> THEN ElementOutcomes ELSE {"done"}) :
        LET r == find_pm_complaint_tiles(find, texts, text, mva)
            ev == Ev("find complaint tiles",
                     IF find # "found" \/ (texts # <<>> /\ text # "done")
                     THEN "raised" ELSE "ok") IN
        /\ complaints' = IF r.pm # <<>> THEN texts ELSE <<>>
        /\ pmTiles' = r.pm
        /\ tileState' = IF find # "found" THEN "SEARCH_FAILED"
                        ELSE IF texts = <<>> THEN "NO_TILES"
                        ELSE IF text # "done" THEN "SEARCH_FAILED"
                        ELSE IF r.pm = <<>> THEN "TILES_NO_PM"
                        ELSE "PM_TILE_FOUND"
        /\ IF r.early # NoResult THEN
               /\ AecReturn(r.early)
               /\ trace' = trace \o <<ev, "return associate_existing_complaint">>
               /\ uiFailed' = (uiFailed \/ r.early.status = "failed")
           ELSE
               /\ pc' = "aec_select_tile"
               /\ trace' = Append(trace, ev)
               /\ UNCHANGED <<results, uiFailed>>
    /\ UNCHANGED <<mainVars, retpc, escaped, workItems, items, clickedTile, navI, depth>>

\* Faulty variant: the log line that reads tile.text is not guarded.
select_complaint_tile_text_unguarded(click, text, m) ==
    IF click # "done" THEN Failed("tile_click", m) ELSE NoResult

\* _select_complaint_tile: tile.click(), then tile.text for the log line,
\* both inside the try.
select_complaint_tile(click, text, m) ==
    IF click # "done" THEN Failed("tile_click", m)
    ELSE IF text # "done" THEN Failed("tile_click", m)
    ELSE NoResult

\* Phase 2: select the first PM complaint tile.
aec_select_tile ==
    /\ pc = "aec_select_tile"
    /\ UNCHANGED unitVars
    /\ \E click \in ElementOutcomes, text \in ElementOutcomes :
        LET tile == pmTiles[1]
            err == select_complaint_tile(click, text, mva)
            ev == Ev("tile.click", IF click = "done" /\ text = "done"
                                   THEN "ok" ELSE "raised") IN
        /\ clickedTile' = tile.pos
        /\ IF err # NoResult THEN
               /\ AecReturn(err)
               /\ trace' = trace \o <<ev, "return associate_existing_complaint">>
               /\ uiFailed' = TRUE
           ELSE
               /\ pc' = "aec_complaint_next"
               /\ trace' = Append(trace, ev)
               /\ UNCHANGED <<results, uiFailed>>
    /\ UNCHANGED <<mainVars, retpc, escaped, workItems, items, complaints, pmTiles,
                   tileState, navI, depth>>

(***************************************************************************)
(* click_next_in_dialog (ui_helpers): poll for an enabled 'Next' candidate *)
(* until the deadline.  rounds are the outcomes of the polling rounds the  *)
(* deadline allows; final is the outcome of the query of the last dump.    *)
(***************************************************************************)
PollOutcomes == {"find_raises", "no_candidates", "none_enabled", "click_failed", "clicked"}
\* The outcomes of the rounds the deadline allows, MaxPollRounds at most.
PollRounds == SeqsUpTo(PollOutcomes, MaxPollRounds)

RECURSIVE click_next_in_dialog(_, _)
click_next_in_dialog(rounds, final) ==
    IF rounds = <<>> THEN
        IF final = "found" THEN [ret |-> FALSE] ELSE [raise |-> final]
    ELSE IF Head(rounds) = "find_raises" THEN [raise |-> WebDriverError]
    ELSE IF Head(rounds) = "clicked" THEN [ret |-> TRUE]
    ELSE click_next_in_dialog(Tail(rounds), final)

\* What click_next_in_dialog can do: return a boolean or raise.
ClickNextResults ==
    {click_next_in_dialog(rounds, final) : rounds \in PollRounds, final \in FindOutcomes}

\* _create_failure_result, used by the except clause of
\* associate_existing_complaint.
create_failure_result(reason, m) == [status |-> "failed", reason |-> reason, mva |-> m]

\* _execute_complaint_dialog_step
execute_complaint_dialog_step(next, m) ==
    IF ~next THEN Failed("complaint_next", m) ELSE NoResult

\* Phase 3, step 1: Complaint -> Next.  An exception of the polling is
\* caught by the try of associate_existing_complaint.
aec_complaint_next ==
    /\ pc = "aec_complaint_next"
    /\ UNCHANGED unitVars
    /\ \E r \in ClickNextResults :
        LET err == IF Raised(r) THEN create_failure_result("exception", mva)
                   ELSE execute_complaint_dialog_step(r.ret, mva)
            ev == Ev("click_next_in_dialog",
                     IF Raised(r) THEN "raised" ELSE IF r.ret THEN "ok" ELSE "failed") IN
        IF err # NoResult THEN
            /\ AecReturn(err)
            /\ trace' = trace \o <<ev, "return associate_existing_complaint">>
            /\ uiFailed' = TRUE
        ELSE
            /\ pc' = "aec_mileage"
            /\ trace' = Append(trace, ev)
            /\ UNCHANGED <<results, uiFailed>>
    /\ complaints' = <<>>
    /\ pmTiles' = <<>>
    /\ UNCHANGED <<mainVars, retpc, escaped, workItems, items, clickedTile, tileState,
                   navI, depth>>

\* complete_mileage_dialog: click 'Next' on the mileage dialog.
complete_mileage_dialog(clicked) ==
    IF clicked THEN [status |-> "ok"]
    ELSE [status |-> "failed", reason |-> "next_btn"]

\* _execute_mileage_dialog_step
execute_mileage_dialog_step(res, m) ==
    IF Get(res, "status", "none") # "ok" THEN Failed("mileage", m) ELSE NoResult

\* Phase 3, step 2: Mileage -> Next.
aec_mileage ==
    /\ pc = "aec_mileage"
    /\ UNCHANGED unitVars
    /\ \E clicked \in ClickResults :
        LET res == complete_mileage_dialog(clicked)
            err == execute_mileage_dialog_step(res, mva)
            ev == Ev("complete_mileage_dialog", IF clicked THEN "ok" ELSE "failed") IN
        IF err # NoResult THEN
            /\ pc' = "hpw_after_aec"
            /\ results' = SetResults2("complete_mileage_dialog", res,
                                      "associate_existing_complaint", err)
            /\ trace' = trace \o <<ev, "return associate_existing_complaint">>
            /\ uiFailed' = TRUE
        ELSE
            /\ pc' = "aec_opcode"
            /\ results' = SetResult("complete_mileage_dialog", res)
            /\ trace' = Append(trace, ev)
            /\ UNCHANGED uiFailed
    /\ UNCHANGED <<mainVars, retpc, escaped, domVars, navI, depth>>

\* Some tile's label is exactly code_text.
HasOpcode(labels, code_text) ==
    \E i \in 1..Len(labels) : NormalizeSpace(labels[i]) = code_text

\* Faulty variant: the last matching tile is scrolled to and clicked.
select_opcode_clicks_last(find, labels, script, click, code_text) ==
    IF find # "found" THEN [raise |-> find]
    ELSE LET tiles == SelectSeq(Positioned(labels),
                                LAMBDA t : NormalizeSpace(t.text) = code_text)
         IN  IF tiles = <<>>
             THEN [ret |-> [status |-> "failed", reason |-> "opcode_not_found"],
                   scrolled |-> 0, clicked |-> 0]
             ELSE IF script # "done" THEN [raise |-> script]
             ELSE IF click # "done" THEN [raise |-> click]
             ELSE [ret |-> [status |-> "ok"], scrolled |-> tiles[Len(tiles)].pos,
                   clicked |-> tiles[Len(tiles)].pos]

\* select_opcode: the tiles whose opCodeText div has normalize-space() equal
\* to code_text; scroll to the first and click it.  Nothing is caught.
select_opcode(find, labels, script, click, code_text) ==
    IF find # "found" THEN [raise |-> find]
    ELSE LET tiles == SelectSeq(Positioned(labels),
                                LAMBDA t : NormalizeSpace(t.text) = code_text)
         IN  IF tiles = <<>>
             THEN [ret |-> [status |-> "failed", reason |-> "opcode_not_found"],
                   scrolled |-> 0, clicked |-> 0]
             ELSE IF script # "done" THEN [raise |-> script]
             ELSE IF click # "done" THEN [raise |-> click]
             ELSE [ret |-> [status |-> "ok"], scrolled |-> tiles[1].pos,
                   clicked |-> tiles[1].pos]

\* Faulty variant: the opcode result is not inspected.
execute_opcode_dialog_step_unchecked(res, m) == NoResult

\* _execute_opcode_dialog_step
execute_opcode_dialog_step(res, m) ==
    IF Get(res, "status", "none") # "ok" THEN Failed("opcode", m) ELSE NoResult

\* Phase 3, step 3: Opcode -> 'PM Gas', then the success case.
aec_opcode ==
    /\ pc = "aec_opcode"
    /\ UNCHANGED unitVars
    /\ \E find \in FindOutcomes :
       \E labels \in (IF find = "found" THEN OpcodeLists ELSE {<<>>}) :
       \E script \in (IF HasOpcode(labels, txtPMGas) THEN ElementOutcomes ELSE {"done"}) :
       \E click \in (IF script = "done" /\ HasOpcode(labels, txtPMGas)
                     THEN ElementOutcomes ELSE {"done"}) :
        LET r == select_opcode(find, labels, script, click, txtPMGas)
            err == IF Raised(r) THEN create_failure_result("exception", mva)
                   ELSE execute_opcode_dialog_step(r.ret, mva)
            ev == Ev("select_opcode",
                     IF Raised(r) THEN "raised"
                     ELSE IF r.ret.status = "ok" THEN "ok" ELSE "failed")
            res == IF err # NoResult THEN err
                   ELSE [status |-> "associated", mva |-> mva] IN
        /\ pc' = "hpw_after_aec"
        /\ results' = IF Raised(r) THEN SetResult("associate_existing_complaint", res)
                      ELSE SetResults2("select_opcode", r.ret,
                                       "associate_existing_complaint", res)
        /\ trace' = trace \o <<ev, "return associate_existing_complaint">>
        /\ uiFailed' = (uiFailed \/ err # NoResult)
    /\ UNCHANGED <<mainVars, retpc, escaped, domVars, navI, depth>>

(***************************************************************************)
(* navigate_back_to_home(driver, max_clicks=5), called from three places.  *)
(***************************************************************************)
max_clicks == 5

\* Call navigate_back_to_home and resume at `ret` when it returns.  The
\* screen the flow is on is some number of screens away from home.
CallNav(ret) ==
    /\ pc' = "nav"
    /\ retpc' = ret
    /\ navI' = 0
    /\ depth' \in 0..MaxDepth

\* The functions an exception of navigate_back_to_home propagates out of.
NavEscapes(ret) ==
    IF ret = "fw_except_return"
    THEN {"navigate_back_to_home", "finalize_workitem", "handle_pm_workitems", "main"}
    ELSE IF ret = "hpw_return_skip"
    THEN {"navigate_back_to_home", "handle_pm_workitems", "main"}
    ELSE {"navigate_back_to_home", "main"}

NavReturn(value) ==
    /\ pc' = retpc
    /\ results' = SetResult("navigate_back_to_home", [value |-> value])
    /\ trace' = Append(trace, "return navigate_back_to_home")
    /\ navI' = 0
    /\ depth' = 0
    /\ UNCHANGED escaped

\* One pass of `for i in range(max_clicks)`, or the fall-through after it.
\* The camera query catches StaleElementReferenceException only; the
\* back-arrow block catches every exception.
nav_step ==
    /\ pc = "nav"
    /\ UNCHANGED unitVars
    /\ IF navI >= max_clicks THEN NavReturn(FALSE)
       ELSE \E cam \in FindOutcomes \cup {Stale} :
            \E arrows \in (IF cam \in {"found", Stale} /\ ~(cam = "found" /\ depth = 0)
                           THEN FindOutcomes ELSE {"found"}) :
            \E present \in (IF arrows = "found" /\ depth > 0 /\ cam \in {"found", Stale}
                            THEN BOOLEAN ELSE {FALSE}) :
            \E click \in (IF present THEN ElementOutcomes ELSE {"done"}) :
           IF cam = "found" /\ depth = 0 THEN NavReturn(TRUE)
           ELSE IF cam \notin {"found", Stale} THEN
               /\ pc' = "aborted"
               /\ escaped' = NavEscapes(retpc)
               /\ navI' = 0
               /\ depth' = 0
               /\ UNCHANGED <<results, trace>>
           ELSE IF arrows # "found" THEN NavReturn(FALSE)
           ELSE IF ~present \/ depth = 0 THEN NavReturn(FALSE)
           ELSE IF click # "done" THEN NavReturn(FALSE)
           ELSE
               /\ navI' = navI + 1
               /\ depth' = depth - 1
               /\ UNCHANGED <<pc, results, trace, escaped>>
    /\ UNCHANGED <<mainVars, retpc, domVars, uiFailed>>

(***************************************************************************)
(* handle_pm_workitems, after the resolver returned (lines 106-116).       *)
(***************************************************************************)
\* Faulty variant: a skipped resolution is finalized like an association.
after_resolver_finalizes_skip(res) ==
    IF Get(res, "status", "none") \in {"associated", "skipped_no_complaint"} THEN "finalize"
    ELSE "return"

\* Faulty variant: every result but 'associated' takes the skip branch.
after_resolver_skips_failed(res) ==
    IF Get(res, "status", "none") = "associated" THEN "finalize"
    ELSE "navigate_and_return"

\* The branch taken on the resolver's result.
after_resolver(res) ==
    IF Get(res, "status", "none") = "associated" THEN "finalize"
    ELSE IF Get(res, "status", "none") = "skipped_no_complaint" THEN "navigate_and_return"
    ELSE "return"

hpw_after_aec ==
    /\ pc = "hpw_after_aec"
    /\ UNCHANGED unitVars
    /\ LET res == results["associate_existing_complaint"] IN
       IF after_resolver(res) = "finalize" THEN
           /\ pc' = "fw_create_click"
           /\ trace' = Append(trace, "call finalize_workitem")
           /\ UNCHANGED <<retpc, results, navI, depth>>
       ELSE IF after_resolver(res) = "navigate_and_return" THEN
           /\ CallNav("hpw_return_skip")
           /\ trace' = Append(trace, "call navigate_back_to_home")
           /\ UNCHANGED results
       ELSE
           /\ pc' = "main_result"
           /\ results' = SetResult("handle_pm_workitems", res)
           /\ trace' = Append(trace, "return handle_pm_workitems")
           /\ UNCHANGED <<retpc, navI, depth>>
    /\ complaints' = <<>>
    /\ pmTiles' = <<>>
    /\ UNCHANGED <<mainVars, escaped, workItems, items, clickedTile, tileState, uiFailed>>

\* `return res` after the recovery navigation of the skip branch.
hpw_return_skip ==
    /\ pc = "hpw_return_skip"
    /\ UNCHANGED unitVars
    /\ pc' = "main_result"
    /\ results' = SetResult("handle_pm_workitems", results["associate_existing_complaint"])
    /\ trace' = Append(trace, "return handle_pm_workitems")
    /\ UNCHANGED <<mainVars, retpc, escaped, domVars, uiFailed, navI, depth>>

(***************************************************************************)
(* The completion procedure: complete_pm_workitem.                         *)
(***************************************************************************)
OpenPMTitles == {txtPM, txtPMHardHold}

\* The XPath predicate of open_pm_workitem_card.
IsOpenPMCard(t) ==
    /\ \E d \in TitleClassTexts(t) : NormalizeSpace(d) \in OpenPMTitles
    /\ NormalizeSpace(t.state) = txtOpen

\* open_pm_workitem_card: find_element raises NoSuchElementException when no
\* tile matches; every exception is reported as open_pm_card.
open_pm_workitem_card(find, tiles, click, m) ==
    IF find # "found" THEN Failed("open_pm_card", m)
    ELSE IF SelectSeq(tiles, IsOpenPMCard) = <<>> THEN Failed("open_pm_card", m)
    ELSE IF click # "done" THEN Failed("open_pm_card", m)
    ELSE [status |-> "ok", reason |-> "card_opened", mva |-> m]

\* The operations of complete_work_item_dialog, in order; each can raise.
DialogSteps == <<"wait dialog", "wait textarea", "textarea.click", "textarea.clear",
                 "textarea.send_keys", "wait complete button", "complete_btn.click",
                 "wait dialog closed">>

\* failAt: the first operation that raises (safe_wait raises AssertionError
\* on a timeout), 0 if none does.
complete_work_item_dialog(failAt) ==
    IF failAt = 0 THEN [status |-> "ok"]
    ELSE [status |-> "failed", reason |-> "dialog_exception"]

\* Faulty variant: the dialog's result is not inspected.
mark_complete_pm_workitem_ignores_dialog(css, xpath, dlg, m) ==
    IF ~css /\ ~xpath THEN Failed("mark_complete_button", m)
    ELSE [status |-> "ok", reason |-> "dialog_complete", mva |-> m]

\* mark_complete_pm_workitem: the button by CSS class, else by text, then
\* the dialog.  dlg is the dialog's result; it is used only when a click
\* succeeded.
mark_complete_pm_workitem(css, xpath, dlg, m) ==
    IF ~css /\ ~xpath THEN Failed("mark_complete_button", m)
    ELSE IF Get(dlg, "status", "none") = "ok"
         THEN [status |-> "ok", reason |-> "dialog_complete", mva |-> m]
         ELSE Failed(Get(dlg, "reason", "dialog_failed"), m)

\* The tail of complete_pm_workitem (lines 252-255).
complete_pm_workitem_result(res, m) ==
    IF Get(res, "status", "none") = "ok"
    THEN [status |-> "ok", reason |-> "completed_open_pm", mva |-> m]
    ELSE Failed(Get(res, "reason", "mark_complete"), m)

\* What open_pm_workitem_card can return for vehicle m on a page that shows
\* one work-item tile or more.
OpenCardResults ==
    [m \in MvaIds |->
        {open_pm_workitem_card(find, tiles, click, m) :
            find \in FindOutcomes, tiles \in WorkItemLists \ {<<>>},
            click \in ElementOutcomes}]

\* complete_pm_workitem, first half: open the card; res is what
\* open_pm_workitem_card returned.  A failure is passed through to `ret`,
\* the caller.  pre are the trace entries of the caller's steps taken with it.
CpwOpenCard(res, ret, pre) ==
    LET ev == Ev("open_pm_workitem_card",
                 IF Get(res, "status", "none") = "ok" THEN "ok" ELSE "failed") IN
    IF Get(res, "status", "none") # "ok" THEN
        /\ pc' = ret
        /\ results' = SetResults2("open_pm_workitem_card", res,
                                  "complete_pm_workitem", res)
        /\ trace' = trace \o pre \o <<ev, "return complete_pm_workitem">>
        /\ uiFailed' = TRUE
    ELSE
        /\ pc' = "cpw_mark_complete"
        /\ results' = SetResult("open_pm_workitem_card", res)
        /\ trace' = trace \o pre \o <<ev>>
        /\ UNCHANGED uiFailed

\* The call from handle_pm_workitems (line 94), on the page that
\* get_work_items queried.
cpw_open_card ==
    /\ pc = "cpw_open_card"
    /\ UNCHANGED unitVars
    /\ \E find \in FindOutcomes, click \in ElementOutcomes :
        CpwOpenCard(open_pm_workitem_card(find, workItems, click, mva), retpc, <<>>)
    /\ workItems' = <<>>
    /\ UNCHANGED <<mainVars, retpc, escaped, items, complaints, pmTiles, clickedTile,
                   tileState, navI, depth>>

\* complete_pm_workitem, second half: mark complete and map the result.
cpw_mark_complete ==
    /\ pc = "cpw_mark_complete"
    /\ UNCHANGED unitVars
    /\ \E css \in ClickResults, xpath \in ClickResults,
          failAt \in 0..Len(DialogSteps) :
        LET dlg == complete_work_item_dialog(failAt)
            res == mark_complete_pm_workitem(css, xpath, dlg, mva)
            out == complete_pm_workitem_result(res, mva) IN
        /\ pc' = retpc
        /\ results' = IF css \/ xpath
                      THEN SetResults3("complete_work_item_dialog", dlg,
                                       "mark_complete_pm_workitem", res,
                                       "complete_pm_workitem", out)
                      ELSE SetResults2("mark_complete_pm_workitem", res,
                                       "complete_pm_workitem", out)
        /\ trace' = trace \o (IF css \/ xpath
                              THEN <<Ev("click Mark Complete", "ok"),
                                     Ev("complete_work_item_dialog",
                                        IF failAt = 0 THEN "ok" ELSE "failed")>>
                              ELSE <<Ev("click Mark Complete", "failed")>>)
                          \o <<"return complete_pm_workitem">>
        /\ uiFailed' = (uiFailed \/ ~css \/ out.status # "ok")
    /\ UNCHANGED <<mainVars, retpc, escaped, domVars, navI, depth>>

\* handle_pm_workitems line 94: return the completion procedure's result.
hpw_return_completion ==
    /\ pc = "hpw_return_completion"
    /\ UNCHANGED unitVars
    /\ pc' = "main_result"
    /\ results' = SetResult("handle_pm_workitems", results["complete_pm_workitem"])
    /\ trace' = Append(trace, "return handle_pm_workitems")
    /\ UNCHANGED <<mainVars, retpc, escaped, domVars, uiFailed, navI, depth>>

(***************************************************************************)
(* finalize_workitem; handle_pm_workitems returns its result unchanged.    *)
(***************************************************************************)
FwReturn(res) ==
    /\ pc' = "main_result"
    /\ results' = SetResults2("finalize_workitem", res, "handle_pm_workitems", res)

\* Step 1: click 'Create Work Item'.
fw_create_click ==
    /\ pc = "fw_create_click"
    /\ UNCHANGED unitVars
    /\ \E clicked \in ClickResults :
        IF ~clicked THEN
            /\ FwReturn(Failed("create_btn", mva))
            /\ trace' = trace \o <<Ev("click Create Work Item", "failed"),
                                   "return finalize_workitem", "return handle_pm_workitems">>
            /\ uiFailed' = TRUE
        ELSE
            /\ pc' = "fw_verify_tiles"
            /\ trace' = Append(trace, Ev("click Create Work Item", "ok"))
            /\ UNCHANGED <<results, uiFailed>>
    /\ UNCHANGED <<mainVars, retpc, escaped, domVars, navI, depth>>

\* Step 2: verify a work-item tile exists, then call the completion
\* procedure, whose first step opens the card on the same page.  An
\* exception of the query goes to the except clause, which first calls
\* navigate_back_to_home.
fw_verify_tiles ==
    /\ pc = "fw_verify_tiles"
    /\ UNCHANGED unitVars
    /\ \E find \in FindOutcomes :
        IF find # "found" THEN
            /\ CallNav("fw_except_return")
            /\ trace' = trace \o <<Ev("find work item tiles", "raised"),
                                   "call navigate_back_to_home">>
            /\ uiFailed' = TRUE
            /\ UNCHANGED results
        ELSE
            \* `if not tiles:` on an empty list
            \/ /\ FwReturn(Failed("no_tiles", mva))
               /\ trace' = trace \o <<Ev("find work item tiles", "failed"),
                                      "return finalize_workitem",
                                      "return handle_pm_workitems">>
               /\ uiFailed' = TRUE
               /\ UNCHANGED <<retpc, navI, depth>>
            \* one tile or more: complete_pm_workitem(driver, mva)
            \/ \E res \in OpenCardResults[mva] :
               /\ CpwOpenCard(res, "fw_after_complete",
                              <<Ev("find work item tiles", "ok"),
                                "call complete_pm_workitem">>)
               /\ retpc' = "fw_after_complete"
               /\ UNCHANGED <<navI, depth>>
    /\ UNCHANGED <<mainVars, escaped, domVars>>

\* Lines 37-42: the result of finalize_workitem from the completion's.
finalize_result(res, m) ==
    IF Get(res, "status", "none") # "ok" THEN Failed("complete", m)
    ELSE [status |-> "closed", mva |-> m]

\* Step 3, after the completion procedure returned.
fw_after_complete ==
    /\ pc = "fw_after_complete"
    /\ UNCHANGED unitVars
    /\ FwReturn(finalize_result(results["complete_pm_workitem"], mva))
    /\ trace' = trace \o <<"return finalize_workitem", "return handle_pm_workitems">>
    /\ UNCHANGED <<mainVars, retpc, escaped, domVars, uiFailed, navI, depth>>

\* The except clause, after navigate_back_to_home returned.
fw_except_return ==
    /\ pc = "fw_except_return"
    /\ UNCHANGED unitVars
    /\ FwReturn(Failed("exception", mva))
    /\ trace' = trace \o <<"return finalize_workitem", "return handle_pm_workitems">>
    /\ UNCHANGED <<mainVars, retpc, escaped, domVars, uiFailed, navI, depth>>

(***************************************************************************)
(* main(), after handle_pm_workitems returned (lines 73-80).               *)
(***************************************************************************)
\* What the loop does with the controller's result.
main_dispatch_recovers_failed(res) ==
    IF Get(res, "status", "none") \in {"ok", "closed"} THEN "success"
    ELSE "navigate"

main_dispatch(res) ==
    IF Get(res, "status", "none") \in {"ok", "closed"} THEN "success"
    ELSE IF Get(res, "status", "none") = "skipped_no_complaint" THEN "navigate"
    ELSE "failed"

main_result ==
    /\ pc = "main_result"
    /\ UNCHANGED unitVars
    /\ IF main_dispatch(results["handle_pm_workitems"]) = "navigate" THEN
           /\ CallNav("main_after_nav")
           /\ trace' = Append(trace, "main: call navigate_back_to_home")
       ELSE
           /\ pc' = "loop"
           /\ UNCHANGED <<retpc, navI, depth, trace>>
    /\ UNCHANGED <<mainVars, results, escaped, domVars, uiFailed>>

main_after_nav ==
    /\ pc = "main_after_nav"
    /\ UNCHANGED unitVars
    /\ pc' = "loop"
    /\ UNCHANGED <<mainVars, flowVars>>

Next ==
    \/ main_start
    \/ main_next_mva
    \/ main_enter_mva
    \/ hpw_get_work_items
    \/ hpw_add_work_item
    \/ aec_find_tiles
    \/ aec_select_tile
    \/ aec_complaint_next
    \/ aec_mileage
    \/ aec_opcode
    \/ hpw_after_aec
    \/ hpw_return_skip
    \/ nav_step
    \/ cpw_open_card
    \/ cpw_mark_complete
    \/ hpw_return_completion
    \/ fw_create_click
    \/ fw_verify_tiles
    \/ fw_after_complete
    \/ fw_except_return
    \/ main_result
    \/ main_after_nav

Spec == Init /\ [][Next]_vars

(***************************************************************************)
(* The helpers exercised on their own: each action is one call, with its   *)
(* inputs and the outcomes of the browser drawn from small sets; `call`    *)
(* keeps the inputs and what the call did.  The main loop is not running.  *)
(***************************************************************************)
programVars == <<pc, mainVars, flowVars>>

\* A helper without state of its own is called once from the initial state.
Called ==
    /\ pc' = "unit_done"
    /\ UNCHANGED <<mainVars, flowVars, driverVars, execution_history, toolVars>>

UnitInit ==
    /\ mvas = <<>>
    /\ idx = 0
    /\ pc \in {"unit", "driver", "core_driver", "workflow", "metrics", "watch",
              "next_dialog", "resources"}
    /\ driver = NoDriver
    /\ sessions = {}
    /\ created = 0
    /\ driverCalls = <<>>
    /\ execution_history = <<>>
    /\ fixtureDriver = NoDriver
    /\ monitor = PerformanceMonitor
    /\ watch = NotWatching
    /\ retpc = "none"
    /\ started = <<>>
    /\ trace = <<>>
    /\ results = NoResults
    /\ escaped = {}
    /\ workItems = <<>>
    /\ items = <<>>
    /\ complaints = <<>>
    /\ pmTiles = <<>>
    /\ clickedTile = 0
    /\ tileState = "none"
    /\ uiFailed = FALSE
    /\ navI = 0
    /\ depth = 0
    /\ call = NoCall

\* click_element(driver, locator) called with the outcomes w1, c1 of the
\* first wait and click and w2, c2 of the retry.
call_click_element ==
    /\ pc = "unit"
    /\ \E o \in ClickOutcomes :
        LET r == click_element(o[1], o[2], o[3], o[4]) IN
        call' = [fn |-> "click_element", w1 |-> o[1], c1 |-> o[2], w2 |-> o[3],
                 c2 |-> o[4], ret |-> r.ok, clicks |-> r.clicks]
    /\ Called

(***************************************************************************)
(* create_new_complaint (complaints_flows): four click steps.              *)
(***************************************************************************)
Click1(button, ok) == <<[button |-> button, ok |-> ok]>>

\* Faulty variant: the Submit click is attempted although 'PM' failed.
create_new_complaint_submits_anyway(add, create, yes, pm, submit, m) ==
    LET c1 == Click1("Add New Complaint", add)
              \o (IF add THEN <<>> ELSE Click1("Create New Complaint", create))
        c2 == c1 \o Click1("Yes", yes)
        c3 == c2 \o Click1("PM", pm)
        c4 == c3 \o Click1("Submit Complaint", submit)
    IN  IF ~(add \/ create)
        THEN [res |-> [status |-> "failed", reason |-> "add_btn"], clicks |-> c1]
        ELSE IF ~yes
        THEN [res |-> [status |-> "failed", reason |-> "drivability"], clicks |-> c2]
        ELSE IF ~submit
        THEN [res |-> [status |-> "failed", reason |-> "submit_info", mva |-> m],
              clicks |-> c4]
        ELSE [res |-> [status |-> "created"], clicks |-> c4]

\* add .. submit: what click_element returns for each button; the second
\* operand of `or` is evaluated only when the first is false.  clicks are
\* the click_element calls made, in order.
create_new_complaint(add, create, yes, pm, submit, m) ==
    LET c1 == Click1("Add New Complaint", add)
              \o (IF add THEN <<>> ELSE Click1("Create New Complaint", create))
        c2 == c1 \o Click1("Yes", yes)
        c3 == c2 \o Click1("PM", pm)
        c4 == c3 \o Click1("Submit Complaint", submit)
    IN  IF ~(add \/ create)
        THEN [res |-> [status |-> "failed", reason |-> "add_btn"], clicks |-> c1]
        ELSE IF ~yes
        THEN [res |-> [status |-> "failed", reason |-> "drivability"], clicks |-> c2]
        ELSE IF ~pm
        THEN [res |-> [status |-> "failed", reason |-> "complaint_type", mva |-> m],
              clicks |-> c3]
        ELSE IF ~submit
        THEN [res |-> [status |-> "failed", reason |-> "submit_info", mva |-> m],
              clicks |-> c4]
        ELSE [res |-> [status |-> "created"], clicks |-> c4]

call_create_new_complaint ==
    /\ pc = "unit"
    /\ \E m \in MvaIds, add \in ClickResults, create \in ClickResults,
          yes \in ClickResults, pm \in ClickResults, submit \in ClickResults :
        LET r == create_new_complaint(add, create, yes, pm, submit, m) IN
        call' = [fn |-> "create_new_complaint", mva |-> m, res |-> r.res,
                 clicks |-> r.clicks]
    /\ Called

(***************************************************************************)
(* send_text (ui_helpers): wait, optional clear, type, read back, compare. *)
(***************************************************************************)
\* The input widgets: what the field holds after `typed` was typed into it.
FieldMaxLength == 2
Widgets == {"plain", "uppercase", "maxlength"}
Upper(c) == IF c = "a" THEN "A" ELSE IF c = "b" THEN "B" ELSE c
Widget(kind, typed) ==
    IF kind = "uppercase" THEN [i \in DOMAIN typed |-> Upper(typed[i])]
    ELSE IF kind = "maxlength" /\ Len(typed) > FieldMaxLength
    THEN SubSeq(typed, 1, FieldMaxLength)
    ELSE typed

FieldTexts == {<<>>, <<"a">>, <<"A", "1">>, <<"A", "1", "b">>}
\* element.get_attribute("value"): the value, None, or an exception.
ReadOutcomes == ElementOutcomes \cup {"None"}
NotRead == <<"not read">>

\* Faulty variant: the read-back is not compared with the text.
send_text_unverified(wait, clear, clr, keys, read, existing, kind, text) ==
    IF wait = Timeout THEN [ret |-> FALSE, value |-> existing, typed_value |-> NotRead]
    ELSE IF wait # "element" THEN [raise |-> wait, value |-> existing]
    ELSE IF clear /\ clr # "done"
    THEN [ret |-> FALSE, value |-> existing, typed_value |-> NotRead]
    ELSE LET content == IF clear THEN <<>> ELSE existing IN
         IF keys # "done" THEN [ret |-> FALSE, value |-> content, typed_value |-> NotRead]
         ELSE LET v == Widget(kind, content \o text) IN
              IF read \in {Stale, WebDriverError}
              THEN [ret |-> FALSE, value |-> v, typed_value |-> NotRead]
              ELSE [ret |-> TRUE, value |-> v,
                    typed_value |-> IF read = "None" THEN <<"None">> ELSE v]

\* wait: the WebDriverWait (only TimeoutException is caught around it);
\* clr, keys, read: element.clear(), send_keys(text), get_attribute("value")
\* (every exception of these is caught); existing: the field's content
\* before the call.  value is the field's content after the call.
send_text(wait, clear, clr, keys, read, existing, kind, text) ==
    IF wait = Timeout THEN [ret |-> FALSE, value |-> existing, typed_value |-> NotRead]
    ELSE IF wait # "element" THEN [raise |-> wait, value |-> existing]
    ELSE IF clear /\ clr # "done"
    THEN [ret |-> FALSE, value |-> existing, typed_value |-> NotRead]
    ELSE LET content == IF clear THEN <<>> ELSE existing IN
         IF keys # "done" THEN [ret |-> FALSE, value |-> content, typed_value |-> NotRead]
         ELSE LET v == Widget(kind, content \o text) IN
              IF read \in {Stale, WebDriverError}
              THEN [ret |-> FALSE, value |-> v, typed_value |-> NotRead]
              ELSE IF read = "None"
              THEN [ret |-> FALSE, value |-> v, typed_value |-> <<"None">>]
              ELSE [ret |-> (v = text), value |-> v, typed_value |-> v]

call_send_text ==
    /\ pc = "unit"
    /\ \E wait \in WaitOutcomes, clear \in BOOLEAN, kind \in Widgets,
          existing \in FieldTexts, text \in FieldTexts :
       \E clr \in (IF wait = "element" /\ clear THEN ElementOutcomes ELSE {"done"}) :
       \E keys \in (IF wait = "element" /\ clr = "done" THEN ElementOutcomes
                    ELSE {"done"}) :
       \E read \in (IF wait = "element" /\ clr = "done" /\ keys = "done"
                    THEN ReadOutcomes ELSE {"done"}) :
        LET r == send_text(wait, clear, clr, keys, read, existing, kind, text) IN
        call' = [fn |-> "send_text", text |-> text, wait |-> wait, clear |-> clear,
                 existing |-> existing, widget |-> kind, out |-> r]
    /\ Called

(***************************************************************************)
(* driver_manager: the singleton browser session.  A session exists from   *)
(* its creation until quit() is called on it.                              *)
(***************************************************************************)
\* webdriver.Edge(...): a new session, or an exception (only
\* SessionNotCreatedException is caught, logged and re-raised).
LaunchOutcomes == {"session", "SessionNotCreatedException", WebDriverError}

\* Faulty variant: a session is launched whether or not the handle is set.
get_or_create_driver_always_launches(d, launch, fresh) ==
    IF launch # "session" THEN [raise |-> launch, driver |-> d, created |-> FALSE]
    ELSE [ret |-> fresh, driver |-> fresh, created |-> TRUE]

\* d: _driver before the call; fresh: the session a successful launch
\* creates.  driver is _driver after the call.
get_or_create_driver(d, launch, fresh) ==
    IF d # NoDriver THEN [ret |-> d, driver |-> d, created |-> FALSE]
    ELSE IF launch # "session" THEN [raise |-> launch, driver |-> d, created |-> FALSE]
    ELSE [ret |-> fresh, driver |-> fresh, created |-> TRUE]

\* quit_driver: quit() is called on the handle if one is set; `finally`
\* unsets the handle also when quit() raises.
quit_driver(d, quit) ==
    IF d = NoDriver THEN [ret |-> "None", driver |-> d, quit_called |-> FALSE]
    ELSE IF quit = "done" THEN [ret |-> "None", driver |-> NoDriver, quit_called |-> TRUE]
    ELSE [raise |-> quit, driver |-> NoDriver, quit_called |-> TRUE]

call_get_or_create_driver ==
    /\ pc = "driver"
    /\ Len(driverCalls) < MaxDriverCalls
    /\ \E launch \in (IF driver = NoDriver THEN LaunchOutcomes ELSE {"session"}) :
        LET r == get_or_create_driver(driver, launch, created + 1) IN
        /\ driver' = r.driver
        /\ sessions' = IF r.created THEN sessions \cup {created + 1} ELSE sessions
        /\ created' = IF r.created THEN created + 1 ELSE created
        /\ driverCalls' = Append(driverCalls,
                                 [op |-> "get_or_create_driver", before |-> driver,
                                  out |-> r])
    /\ UNCHANGED <<programVars, call, execution_history, fixtureDriver, toolVars>>

call_quit_driver ==
    /\ pc = "driver"
    /\ Len(driverCalls) < MaxDriverCalls
    /\ \E quit \in (IF driver = NoDriver THEN {"done"} ELSE {"done", WebDriverError}) :
        LET r == quit_driver(driver, quit) IN
        /\ driver' = r.driver
        /\ sessions' = IF r.quit_called THEN sessions \ {driver} ELSE sessions
        /\ driverCalls' = Append(driverCalls,
                                 [op |-> "quit_driver", before |-> driver, out |-> r])
        /\ UNCHANGED created
    /\ UNCHANGED <<programVars, call, execution_history, fixtureDriver, toolVars>>

\* An operation on the handle the fixture holds: maximize_window(),
\* implicitly_wait(), quit().  On a session that was quit it fails.
HandleOutcomes(d) == IF d \in sessions THEN {"done", WebDriverError} ELSE {WebDriverError}

\* base_test.driver, up to the yield: the handle of get_or_create_driver,
\* prepared for the test.  A setup that raises has no teardown.
driver_fixture_setup ==
    /\ pc = "driver"
    /\ Len(driverCalls) < MaxDriverCalls
    /\ fixtureDriver = NoDriver
    /\ \E launch \in (IF driver = NoDriver THEN LaunchOutcomes ELSE {"session"}) :
        LET r == get_or_create_driver(driver, launch, created + 1)
            live == IF r.created THEN sessions \cup {created + 1} ELSE sessions
        IN  /\ driver' = r.driver
            /\ sessions' = live
            /\ created' = IF r.created THEN created + 1 ELSE created
            /\ driverCalls' = Append(driverCalls,
                                     [op |-> "get_or_create_driver", before |-> driver,
                                      out |-> r, by |-> "fixture"])
            /\ IF Raised(r) THEN fixtureDriver' = NoDriver
               ELSE \E prepare \in (IF r.ret \in live THEN {"done", WebDriverError}
                                    ELSE {WebDriverError}) :
                    fixtureDriver' = IF prepare = "done" THEN r.ret ELSE NoDriver
    /\ UNCHANGED <<programVars, call, execution_history, toolVars>>

\* base_test.driver, after the yield: driver.quit() on the handle it holds.
driver_fixture_teardown ==
    /\ pc = "driver"
    /\ Len(driverCalls) < MaxDriverCalls
    /\ fixtureDriver # NoDriver
    /\ \E quit \in HandleOutcomes(fixtureDriver) :
        driverCalls' = Append(driverCalls,
                              [op |-> "driver.quit", before |-> driver,
                               out |-> [ret |-> quit, driver |-> driver],
                               by |-> "fixture"])
    /\ sessions' = sessions \ {fixtureDriver}
    /\ fixtureDriver' = NoDriver
    /\ UNCHANGED <<programVars, call, execution_history, driver, created, toolVars>>

(***************************************************************************)
(* core/driver_manager.py, the module run_compass.py imports: its own      *)
(* singleton, a version check that raises, and a quit_driver without       *)
(* `finally`.                                                              *)
(***************************************************************************)
core_get_or_create_driver(d, versions_match, launch, fresh) ==
    IF d # NoDriver THEN [ret |-> d, driver |-> d, created |-> FALSE]
    ELSE IF ~versions_match THEN [raise |-> "RuntimeError", driver |-> d, created |-> FALSE]
    ELSE IF launch # "session" THEN [raise |-> launch, driver |-> d, created |-> FALSE]
    ELSE [ret |-> fresh, driver |-> fresh, created |-> TRUE]

core_quit_driver(d, quit) ==
    IF d = NoDriver THEN [ret |-> "None", driver |-> d, quit_called |-> FALSE]
    ELSE IF quit = "done" THEN [ret |-> "None", driver |-> NoDriver, quit_called |-> TRUE]
    ELSE [raise |-> quit, driver |-> d, quit_called |-> TRUE]

call_core_get_or_create_driver ==
    /\ pc = "core_driver"
    /\ Len(driverCalls) < MaxDriverCalls
    /\ \E versions_match \in (IF driver = NoDriver THEN BOOLEAN ELSE {TRUE}) :
       \E launch \in (IF driver = NoDriver /\ versions_match THEN LaunchOutcomes
                      ELSE {"session"}) :
        LET r == core_get_or_create_driver(driver, versions_match, launch, created + 1) IN
        /\ driver' = r.driver
        /\ sessions' = IF r.created THEN sessions \cup {created + 1} ELSE sessions
        /\ created' = IF r.created THEN created + 1 ELSE created
        /\ driverCalls' = Append(driverCalls,
                                 [op |-> "get_or_create_driver", before |-> driver,
                                  out |-> r])
    /\ UNCHANGED <<programVars, call, execution_history, fixtureDriver, toolVars>>

call_core_quit_driver ==
    /\ pc = "core_driver"
    /\ Len(driverCalls) < MaxDriverCalls
    /\ \E quit \in (IF driver = NoDriver THEN {"done"} ELSE HandleOutcomes(driver)) :
        LET r == core_quit_driver(driver, quit) IN
        /\ driver' = r.driver
        /\ sessions' = IF r.quit_called THEN sessions \ {driver} ELSE sessions
        /\ driverCalls' = Append(driverCalls,
                                 [op |-> "quit_driver", before |-> driver, out |-> r])
        /\ UNCHANGED created
    /\ UNCHANGED <<programVars, call, execution_history, fixtureDriver, toolVars>>

(***************************************************************************)
(* load_mvas (data_loader): the first column of the rows csv.reader yields *)
(* that are not empty and whose first field does not start with '#'.       *)
(***************************************************************************)
LineChars == {"5", " ", "#", ","}
LineLen == 2
CsvLines == SeqsUpTo(LineChars, LineLen)
CsvFiles == SeqsUpTo(CsvLines, MaxLines)

RECURSIVE Fields(_)
\* csv.reader on one line without quotes: the fields between the commas;
\* an empty line gives the empty row.
Fields(line) ==
    IF line = <<>> THEN <<>>
    ELSE IF \A i \in 1..Len(line) : line[i] # "," THEN <<line>>
    ELSE LET k == CHOOSE i \in 1..Len(line) :
                      line[i] = "," /\ \A j \in 1..(i - 1) : line[j] # ","
             rest == SubSeq(line, k + 1, Len(line))
         IN  <<SubSeq(line, 1, k - 1)>> \o (IF rest = <<>> THEN <<<<>>>> ELSE Fields(rest))

RECURSIVE Strip(_)
\* str.strip() on a text whose only whitespace is the space.
Strip(t) ==
    IF t = <<>> THEN t
    ELSE IF t[1] = " " THEN Strip(Tail(t))
    ELSE IF t[Len(t)] = " " THEN Strip(SubSeq(t, 1, Len(t) - 1))
    ELSE t

StartsWith(t, c) == t # <<>> /\ t[1] = c

\* `[row[0].strip() for row in reader if row and not row[0].startswith("#")]`
load_mvas(lines) ==
    LET rows == [i \in DOMAIN lines |-> Fields(lines[i])]
        kept == SelectSeq(rows, LAMBDA row : row # <<>> /\ ~StartsWith(row[1], "#"))
    IN  [i \in DOMAIN kept |-> Strip(kept[i][1])]

call_load_mvas ==
    /\ pc = "unit"
    /\ \E lines \in CsvFiles :
        call' = [fn |-> "load_mvas", lines |-> lines, ret |-> load_mvas(lines)]
    /\ Called

\* select_opcode(driver, mva, code_text) called on its own.
OpcodeTargets == {txtPMGas, txtPMService}

call_select_opcode ==
    /\ pc = "unit"
    /\ \E code_text \in OpcodeTargets, find \in FindOutcomes :
       \E labels \in (IF find = "found" THEN OpcodeLists ELSE {<<>>}) :
       \E script \in (IF HasOpcode(labels, code_text) THEN ElementOutcomes ELSE {"done"}) :
       \E click \in (IF script = "done" /\ HasOpcode(labels, code_text)
                     THEN ElementOutcomes ELSE {"done"}) :
        call' = [fn |-> "select_opcode", code_text |-> code_text, find |-> find,
                 labels |-> labels, script |-> script, click |-> click,
                 out |-> select_opcode(find, labels, script, click, code_text)]
    /\ Called

(***************************************************************************)
(* get_config (config_loader).  Python values are tagged: a str, an int,   *)
(* None or a dict.  A key is the list key.split('.') yields.               *)
(***************************************************************************)
PyStr(v) == [t |-> "str", v |-> v]
PyInt(n) == [t |-> "int", v |-> n]
PyNone == [t |-> "None", v |-> 0]
PyDict(d) == [t |-> "dict", v |-> d]

\* Contents of config.json (after the merge of config.local.json).
ConfigNested ==
    [username |-> PyStr(<<"u">>),
     logging |-> PyDict([level |-> PyStr(<<"D">>), file |-> PyNone])]
ConfigFlat ==
    [username |-> PyStr(<<>>), logging |-> PyStr(<<"D">>)]
Configs == {ConfigNested, ConfigFlat}

ConfigKeys == {<<"username">>, <<"missing">>, <<"logging">>, <<"logging", "level">>,
               <<"logging", "file">>, <<"logging", "missing">>,
               <<"username", "level">>, <<"missing", "level">>}
Defaults == {PyNone, PyStr(<<>>), PyInt(0), PyStr(<<"I">>)}

\* _ENV_OVERRIDES: the keys an environment variable can override, and the
\* values os.environ.get can give for it.
EnvOverrides == {"username", "password", "login_id"}
EnvUnset == <<"unset">>
EnvValues == {EnvUnset, <<>>, <<" ">>, <<"e">>}

RECURSIVE Walk(_, _)
\* `for k in keys: value = value[k]`: KeyError on a missing key, TypeError
\* when value is not a dict.
Walk(value, keys) ==
    IF keys = <<>> THEN [ok |-> TRUE, value |-> value]
    ELSE IF value.t # "dict" THEN [ok |-> FALSE, value |-> PyNone]
    ELSE IF Head(keys) \notin DOMAIN value.v THEN [ok |-> FALSE, value |-> PyNone]
    ELSE Walk(value.v[Head(keys)], Tail(keys))

\* Faulty variant: a falsy default is treated like a missing one.
get_config_falsy_default(config, env, key, default) ==
    LET falsy == default \in {PyNone, PyStr(<<>>), PyInt(0)} IN
    IF Len(key) = 1 /\ key[1] \in EnvOverrides /\ env # EnvUnset /\ Strip(env) # <<>>
    THEN [ret |-> PyStr(env)]
    ELSE IF Len(key) > 1 THEN
        LET w == Walk(PyDict(config), key) IN
        IF w.ok THEN [ret |-> w.value]
        ELSE IF falsy THEN [raise |-> "KeyError"]
        ELSE [ret |-> default]
    ELSE IF key[1] \notin DOMAIN config /\ falsy THEN [raise |-> "KeyError"]
    ELSE IF key[1] \in DOMAIN config THEN [ret |-> config[key[1]]]
    ELSE [ret |-> default]

\* default is None both when the caller gave None and when it gave nothing.
get_config(config, env, key, default) ==
    IF Len(key) = 1 /\ key[1] \in EnvOverrides /\ env # EnvUnset /\ Strip(env) # <<>>
    THEN [ret |-> PyStr(env)]
    ELSE IF Len(key) > 1 THEN
        LET w == Walk(PyDict(config), key) IN
        IF w.ok THEN [ret |-> w.value]
        ELSE IF default = PyNone THEN [raise |-> "KeyError"]
        ELSE [ret |-> default]
    ELSE IF key[1] \notin DOMAIN config /\ default = PyNone THEN [raise |-> "KeyError"]
    ELSE IF key[1] \in DOMAIN config THEN [ret |-> config[key[1]]]
    ELSE [ret |-> default]

\* given: the caller passed a second argument.
call_get_config ==
    /\ pc = "unit"
    /\ \E config \in Configs, key \in ConfigKeys, given \in BOOLEAN :
       \E default \in (IF given THEN Defaults ELSE {PyNone}) :
       \E env \in (IF Len(key) = 1 /\ key[1] \in EnvOverrides THEN EnvValues
                   ELSE {EnvUnset}) :
        call' = [fn |-> "get_config", config |-> config, env |-> env, key |-> key,
                 given |-> given, default |-> default,
                 out |-> get_config(config, env, key, default)]
    /\ Called

(***************************************************************************)
(* ai_workflow_executor: the workflows of the executor and the steps they  *)
(* record.  A Python None in a field that otherwise holds a string is      *)
(* NoneStr; a dict is a function from its keys; the booleans and strings   *)
(* kept in evidence_collected are written "True", "False", "skipped".      *)
(***************************************************************************)
NoneStr == "<None>"
EmptyDict == [k \in {} |-> "False"]
NoEvidence == [none |-> TRUE]
Put(d, key, value) == [k \in DOMAIN d \cup {key} |-> IF k = key THEN value ELSE d[k]]
Truthy(v) == v \notin {"False", "", NoneStr}

\* What the detector hands to the executor.
WorkflowTypes == {"INTEGRATION_ASSESSMENT", "TEST_VALIDATION", "CODE_ANALYSIS",
                  "STANDARD_RESPONSE"}
DetectedBranches == {NoneStr, "feature/test"}
DetectionResults == [workflow_type : WorkflowTypes, detected_branch : DetectedBranches]

\* str(e) of the exceptions the environment raises (an exception built
\* without arguments has the empty text).
ErrorTexts == {"boom", ""}
Raises == {[raise |-> e] : e \in ErrorTexts}
\* subprocess.run: a finished process, or TimeoutExpired and the like.
CommandOutcomes == {[returncode |-> 0], [returncode |-> 1]} \cup Raises
\* The probes of the file system.
ProbeOutcomes == {[ret |-> "probed"]} \cup Raises
DependencyOutcomes == {[ret |-> TRUE], [ret |-> FALSE]} \cup Raises

WorkflowStep(name) ==
    [name |-> name, required |-> TRUE, completed |-> FALSE,
     evidence |-> NoEvidence, error_message |-> NoneStr]

\* datetime.now() is a reading of a clock; no reading is 0.
NoTime == 0

WorkflowExecution(workflow_type, branch_name, start_time) ==
    [workflow_type |-> workflow_type, branch_name |-> branch_name,
     start_time |-> start_time,
     steps |-> <<>>, completed |-> FALSE, success |-> FALSE,
     evidence_collected |-> EmptyDict, final_recommendation |-> NoneStr,
     end_time |-> NoTime]

handle_phase_error(phase_name, error) ==
    [message |-> "Phase '" \o phase_name \o "' failed: " \o error,
     debug_info |-> [phase |-> phase_name, error_type |-> "Exception",
                     error_details |-> error]]

\* The evidence of a phase function is a dict: its keys win over "phase".
collect_phase_evidence(phase_name, raw_evidence) ==
    [k \in DOMAIN raw_evidence \cup {"phase"} |->
        IF k \in DOMAIN raw_evidence THEN raw_evidence[k] ELSE phase_name]

\* out is what phase_function(**kwargs) did: [ret |-> dict] or [raise |-> text].
execute_phase_completes_first(phase_name, out, execution) ==
    IF Raised(out)
    THEN LET error_context == handle_phase_error(phase_name, out.raise) IN
         [step |-> [WorkflowStep(phase_name) EXCEPT
                        !.completed = TRUE,
                        !.error_message = error_context.message,
                        !.evidence = error_context.debug_info],
          execution |-> execution]
    ELSE [step |-> [WorkflowStep(phase_name) EXCEPT
                        !.evidence = collect_phase_evidence(phase_name, out.ret),
                        !.completed = TRUE],
          execution |-> [execution EXCEPT !.evidence_collected =
                             Put(@, phase_name \o "_completed", "True")]]

execute_phase_records_requirements(phase_name, out, execution) ==
    IF Raised(out)
    THEN LET error_context == handle_phase_error(phase_name, out.raise) IN
         [step |-> [WorkflowStep(phase_name) EXCEPT
                        !.error_message = error_context.message,
                        !.evidence = error_context.debug_info],
          execution |-> execution]
    ELSE [step |-> [WorkflowStep(phase_name) EXCEPT
                        !.evidence = collect_phase_evidence(phase_name, out.ret),
                        !.completed = TRUE],
          execution |-> [execution EXCEPT !.evidence_collected =
                             Put(@, IF phase_name = "validate_paths"
                                    THEN "documentation_reviewed"
                                    ELSE IF phase_name = "complete_test_execution"
                                    THEN "tests_executed"
                                    ELSE phase_name \o "_completed", "True")]]

execute_phase(phase_name, out, execution) ==
    IF Raised(out)
    THEN LET error_context == handle_phase_error(phase_name, out.raise) IN
         [step |-> [WorkflowStep(phase_name) EXCEPT
                        !.error_message = error_context.message,
                        !.evidence = error_context.debug_info],
          execution |-> execution]
    ELSE [step |-> [WorkflowStep(phase_name) EXCEPT
                        !.evidence = collect_phase_evidence(phase_name, out.ret),
                        !.completed = TRUE],
          execution |-> [execution EXCEPT !.evidence_collected =
                             Put(@, phase_name \o "_completed", "True")]]

\* The phase functions, given the outcome of the command or probe they run.
review_documentation(probe) ==
    IF Raised(probe) THEN probe ELSE [ret |-> [documents |-> probe.ret]]

detect_branch_info(cmd, detection) ==
    IF Raised(cmd) THEN cmd
    ELSE [ret |-> [detected_branch |-> detection.detected_branch,
                   return_code |-> cmd.returncode]]

execute_test_command(cmd) ==
    IF Raised(cmd) THEN cmd
    ELSE [ret |-> [success |-> cmd.returncode = 0, return_code |-> cmd.returncode]]

make_integration_decision_without_history(execution) ==
    LET evidence == execution.evidence_collected
        flag(req) == Truthy(Get(evidence, req, "False"))
        requirements == <<"documentation_reviewed", "tests_executed", "history_analyzed">>
        e2e == Get(evidence, "e2e_validated", NoneStr)
        verdict == IF \A i \in 1..2 : flag(requirements[i])
                   THEN IF e2e = "True" THEN <<"READY", "HIGH">>
                        ELSE IF e2e = "skipped" THEN <<"READY_WITH_CAVEAT", "MEDIUM">>
                        ELSE <<"NOT_READY", "MEDIUM">>
                   ELSE <<"NOT_READY", "LOW">>
    IN  [recommendation |-> verdict[1], confidence |-> verdict[2],
         missing_requirements |-> SelectSeq(requirements, LAMBDA req : ~flag(req))]

make_integration_decision(execution) ==
    LET evidence == execution.evidence_collected
        flag(req) == Truthy(Get(evidence, req, "False"))
        requirements == <<"documentation_reviewed", "tests_executed", "history_analyzed">>
        e2e == Get(evidence, "e2e_validated", NoneStr)
        verdict == IF \A i \in 1..3 : flag(requirements[i])
                   THEN IF e2e = "True" THEN <<"READY", "HIGH">>
                        ELSE IF e2e = "skipped" THEN <<"READY_WITH_CAVEAT", "MEDIUM">>
                        ELSE <<"NOT_READY", "MEDIUM">>
                   ELSE <<"NOT_READY", "LOW">>
    IN  [recommendation |-> verdict[1], confidence |-> verdict[2],
         missing_requirements |-> SelectSeq(requirements, LAMBDA req : ~flag(req))]

\* The six phases of the integration assessment; each returns the step and
\* the execution as the phase left it.
execute_path_validation_phase(execution, probe) ==
    execute_phase("validate_paths", review_documentation(probe), execution)

execute_branch_detection_phase(execution, detection, cmd) ==
    execute_phase("detect_branch", detect_branch_info(cmd, detection), execution)

execute_history_analysis_phase(execution, detection, cmd) ==
    LET step == WorkflowStep("analyze_history") IN
    IF Raised(cmd)
    THEN [step |-> [step EXCEPT !.error_message = cmd.raise], execution |-> execution]
    ELSE [step |-> [step EXCEPT !.completed = TRUE,
                                !.evidence = [branch |-> detection.detected_branch]],
          execution |-> [execution EXCEPT !.evidence_collected =
                             Put(@, "history_analyzed", "True")]]

execute_test_execution_phase(execution, cmd) ==
    execute_phase("complete_test_execution", execute_test_command(cmd), execution)

execute_e2e_validation_phase(execution, deps, cmd) ==
    LET step == WorkflowStep("e2e_validation") IN
    IF Raised(deps)
    THEN [step |-> [step EXCEPT !.error_message = deps.raise], execution |-> execution]
    ELSE IF deps.ret
    THEN IF Raised(cmd)
         THEN [step |-> [step EXCEPT !.error_message = cmd.raise], execution |-> execution]
         ELSE LET e2e_success == cmd.returncode = 0 IN
              [step |-> [step EXCEPT !.completed = TRUE,
                                     !.evidence = [success |-> e2e_success,
                                                   dependencies_available |-> TRUE]],
               execution |-> [execution EXCEPT !.evidence_collected =
                                  Put(@, "e2e_validated",
                                      IF e2e_success THEN "True" ELSE "False")]]
    ELSE [step |-> [step EXCEPT !.completed = TRUE,
                                !.evidence = [skipped |-> TRUE,
                                              dependencies_available |-> FALSE]],
          execution |-> [execution EXCEPT !.evidence_collected =
                             Put(@, "e2e_validated", "skipped")]]

execute_integration_decision_phase(execution) ==
    LET decision == make_integration_decision(execution) IN
    [step |-> [WorkflowStep("integration_decision") EXCEPT
                   !.completed = TRUE, !.evidence = decision],
     execution |-> [execution EXCEPT
                        !.final_recommendation = decision.recommendation,
                        !.evidence_collected = Put(@, "decision_made", "True")]]

\* execution.steps.append(step), on the execution as the phase left it.
AppendStep(r) == [r.execution EXCEPT !.steps = Append(@, r.step)]
AllCompleted(steps) == \A i \in 1..Len(steps) : steps[i].completed
AllRequiredCompleted_first_only(steps) ==
    steps # <<>> /\ (steps[1].required => steps[1].completed)

AllRequiredCompleted(steps) ==
    \A i \in 1..Len(steps) : steps[i].required => steps[i].completed
AnyErrorMessage(steps) ==
    \E i \in 1..Len(steps) : Truthy(steps[i].error_message)

\* The outcomes the environment gives to one run of each workflow.
IntegrationEnvs ==
    [docs : ProbeOutcomes, branch : CommandOutcomes, history : CommandOutcomes,
     tests : CommandOutcomes, e2e_deps : {[ret |-> FALSE]} \cup Raises,
     e2e : {[returncode |-> 0]}]
    \cup [docs : ProbeOutcomes, branch : CommandOutcomes, history : CommandOutcomes,
          tests : CommandOutcomes, e2e_deps : {[ret |-> TRUE]}, e2e : CommandOutcomes]
TestValidationEnvs == [deps : ProbeOutcomes, pyramid : CommandOutcomes]
CodeAnalysisEnvs == [git : CommandOutcomes, quality : CommandOutcomes]
NoEnv == [none |-> TRUE]

execute_integration_assessment_stops_at_failure(execution, detection, env) ==
    LET e1 == AppendStep(execute_path_validation_phase(execution, env.docs))
        e2 == IF AllCompleted(e1.steps)
              THEN AppendStep(execute_branch_detection_phase(e1, detection, env.branch))
              ELSE e1
        e3 == IF AllCompleted(e2.steps)
              THEN AppendStep(execute_history_analysis_phase(e2, detection, env.history))
              ELSE e2
        e4 == IF AllCompleted(e3.steps)
              THEN AppendStep(execute_test_execution_phase(e3, env.tests))
              ELSE e3
        e5 == IF AllCompleted(e4.steps)
              THEN AppendStep(execute_e2e_validation_phase(e4, env.e2e_deps, env.e2e))
              ELSE e4
        e6 == IF AllCompleted(e5.steps)
              THEN AppendStep(execute_integration_decision_phase(e5))
              ELSE e5
        all_critical_steps_completed == AllRequiredCompleted(e6.steps)
    IN  [e6 EXCEPT !.completed = all_critical_steps_completed,
                   !.success = all_critical_steps_completed
                               /\ ~AnyErrorMessage(e6.steps)]

execute_integration_assessment(execution, detection, env) ==
    LET e1 == AppendStep(execute_path_validation_phase(execution, env.docs))
        e2 == AppendStep(execute_branch_detection_phase(e1, detection, env.branch))
        e3 == AppendStep(execute_history_analysis_phase(e2, detection, env.history))
        e4 == AppendStep(execute_test_execution_phase(e3, env.tests))
        e5 == AppendStep(execute_e2e_validation_phase(e4, env.e2e_deps, env.e2e))
        e6 == AppendStep(execute_integration_decision_phase(e5))
        all_critical_steps_completed == AllRequiredCompleted(e6.steps)
    IN  [e6 EXCEPT !.completed = all_critical_steps_completed,
                   !.success = all_critical_steps_completed
                               /\ ~AnyErrorMessage(e6.steps)]

\* The step names with "test" in them, as assess_system_readiness selects.
TestStepNames == {"execute_test_pyramid", "complete_test_execution"}

assess_system_readiness(execution) ==
    LET tested == {i \in 1..Len(execution.steps) :
                      execution.steps[i].name \in TestStepNames}
        all_tests_passed ==
            \A i \in tested : Get(execution.steps[i].evidence, "success", FALSE)
    IN  [readiness |-> IF all_tests_passed THEN "READY" ELSE "NOT_READY",
         all_tests_passed |-> all_tests_passed]

\* One hand-written step: run, mark completed and keep the evidence, or
\* keep the text of the exception.
RunStep(name, out) ==
    IF Raised(out)
    THEN [WorkflowStep(name) EXCEPT !.error_message = out.raise]
    ELSE [WorkflowStep(name) EXCEPT !.completed = TRUE, !.evidence = out.ret]

execute_test_validation(execution, detection, env) ==
    LET step1 == RunStep("verify_dependencies",
                         IF Raised(env.deps) THEN env.deps
                         ELSE [ret |-> [dependencies |-> env.deps.ret]])
        step2 == RunStep("execute_test_pyramid",
                         IF Raised(env.pyramid) THEN env.pyramid
                         ELSE [ret |-> [success |-> env.pyramid.returncode = 0]])
        e3 == [execution EXCEPT !.steps =
                   @ \o <<step1, step2, WorkflowStep("assess_system_readiness")>>]
        assessment == assess_system_readiness(e3)
        step3 == RunStep("assess_system_readiness", [ret |-> assessment])
        steps == execution.steps \o <<step1, step2, step3>>
    IN  [execution EXCEPT !.steps = steps,
                          !.final_recommendation = assessment.readiness,
                          !.completed = AllCompleted(steps),
                          !.success = AllCompleted(steps) /\ ~AnyErrorMessage(steps)]

execute_code_analysis(execution, detection, env) ==
    LET step1 == RunStep("git_analysis",
                         IF Raised(env.git) THEN env.git
                         ELSE [ret |-> [commits |-> "stdout"]])
        step2 == RunStep("quality_check",
                         IF Raised(env.quality) THEN env.quality
                         ELSE [ret |-> [success |-> env.quality.returncode = 0]])
        steps == execution.steps \o <<step1, step2>>
    IN  [execution EXCEPT !.steps = steps,
                          !.completed = AllCompleted(steps),
                          !.success = AllCompleted(steps)]

\* The clock readings of the call that finds history in the executor.
StartTime(history) == 2 * Len(history) + 1
EndTime(history) == 2 * Len(history) + 2

\* execution.error_message = str(e): an attribute the record gets only here.
SetErrorMessage(execution, text) ==
    [k \in DOMAIN execution \cup {"error_message"} |->
        IF k = "error_message" THEN text ELSE execution[k]]

\* The try block of execute_workflow.  env is the outcomes of the commands
\* and probes of the workflow, or [raise |-> text] when the workflow method
\* itself raises.
workflow_body(execution, detection_result, env) ==
    IF Raised(env) THEN env
    ELSE CASE detection_result.workflow_type = "INTEGRATION_ASSESSMENT" ->
                execute_integration_assessment(execution, detection_result, env)
           [] detection_result.workflow_type = "TEST_VALIDATION" ->
                execute_test_validation(execution, detection_result, env)
           [] detection_result.workflow_type = "CODE_ANALYSIS" ->
                execute_code_analysis(execution, detection_result, env)
           [] OTHER -> [execution EXCEPT !.completed = TRUE, !.success = TRUE]

\* execute_workflow on an executor whose execution_history is history:
\* what the caller gets and the history afterwards.
execute_workflow_loses_failed_runs(detection_result, env, history) ==
    LET execution == WorkflowExecution(detection_result.workflow_type,
                                       detection_result.detected_branch,
                                       StartTime(history))
        body == workflow_body(execution, detection_result, env)
    IN  IF Raised(body)
        THEN [raise |-> body.raise, execution_history |-> history]
        ELSE LET done == [body EXCEPT !.end_time = EndTime(history)] IN
             [ret |-> done, execution_history |-> Append(history, done)]

execute_workflow(detection_result, env, history) ==
    LET execution == WorkflowExecution(detection_result.workflow_type,
                                       detection_result.detected_branch,
                                       StartTime(history))
        body == workflow_body(execution, detection_result, env)
        ran == IF Raised(body)
               THEN SetErrorMessage([execution EXCEPT !.success = FALSE], body.raise)
               ELSE body
        done == [ran EXCEPT !.end_time = EndTime(history)]
    IN  [ret |-> done, execution_history |-> Append(history, done)]

WorkflowEnvs(workflow_type) ==
    CASE workflow_type = "INTEGRATION_ASSESSMENT" -> IntegrationEnvs \cup Raises
      [] workflow_type = "TEST_VALIDATION" -> TestValidationEnvs \cup Raises
      [] workflow_type = "CODE_ANALYSIS" -> CodeAnalysisEnvs \cup Raises
      [] OTHER -> {NoEnv}

\* The runs used when one executor is called several times: every command
\* and probe succeeds, or the first one raises, or the workflow method does.
Succeeds == [returncode |-> 0]
Probed == [ret |-> "probed"]
Boom == [raise |-> "boom"]
RepeatedEnvs(workflow_type) ==
    CASE workflow_type = "INTEGRATION_ASSESSMENT" ->
            [docs : {Probed, Boom}, branch : {Succeeds}, history : {Succeeds},
             tests : {Succeeds}, e2e_deps : {[ret |-> TRUE]}, e2e : {Succeeds}]
            \cup {Boom}
      [] workflow_type = "TEST_VALIDATION" ->
            [deps : {Probed, Boom}, pyramid : {Succeeds}] \cup {Boom}
      [] workflow_type = "CODE_ANALYSIS" ->
            [git : {Succeeds, Boom}, quality : {Succeeds}] \cup {Boom}
      [] OTHER -> {NoEnv}

\* One call of execute_workflow: a single call with every outcome of the
\* environment, or one more call on an executor that has been called before.
call_execute_workflow ==
    /\ \/ pc = "unit" /\ pc' = "unit_done"
       \/ pc = "workflow" /\ Len(execution_history) < MaxWorkflowCalls /\ pc' = pc
    /\ \E detection_result \in DetectionResults :
       \E env \in (IF pc = "unit" THEN WorkflowEnvs(detection_result.workflow_type)
                   ELSE RepeatedEnvs(detection_result.workflow_type)) :
        LET r == execute_workflow(detection_result, env, execution_history) IN
        /\ call' = [fn |-> "execute_workflow", detection_result |-> detection_result,
                    env |-> env, raised |-> Raised(r),
                    out |-> IF Raised(r) THEN NoResult ELSE r.ret]
        /\ execution_history' = r.execution_history
    /\ UNCHANGED <<mainVars, flowVars, driverVars, toolVars>>

\* make_integration_decision on its own: evidence dicts in which each key
\* is absent or holds True, False or another value ("yes"; for
\* e2e_validated also "skipped").
RequirementKeys == {"documentation_reviewed", "tests_executed", "history_analyzed"}
EvidenceKeys == RequirementKeys \cup {"e2e_validated"}
EvidenceValues(key) ==
    IF key = "e2e_validated" THEN {"True", "False", "skipped", "yes"}
    ELSE {"True", "False", "yes"}
EvidenceDicts ==
    UNION {{d \in [present -> {"True", "False", "skipped", "yes"}] :
               \A key \in present : d[key] \in EvidenceValues(key)} :
           present \in SUBSET EvidenceKeys}

call_make_integration_decision ==
    /\ pc = "unit"
    /\ \E evidence \in EvidenceDicts :
        LET execution == [WorkflowExecution("INTEGRATION_ASSESSMENT", "feature/test", 1)
                              EXCEPT !.evidence_collected = evidence] IN
        call' = [fn |-> "make_integration_decision", evidence |-> evidence,
                 out |-> make_integration_decision(execution)]
    /\ Called

(***************************************************************************)
(* LoginPage.enter_wwid: wait for the WWID input with safe_wait, type the  *)
(* id with send_text, submit with click_and_expect.                        *)
(***************************************************************************)
AssertionError == "AssertionError"

\* safe_wait: the value of the wait; a TimeoutException of the wait is
\* replaced by an AssertionError, any other exception passes through.
safe_wait(wait) ==
    IF wait = "element" THEN [ret |-> wait]
    ELSE IF wait = Timeout THEN [raise |-> AssertionError]
    ELSE [raise |-> wait]

\* send_text returns a boolean or lets an exception of its wait through;
\* click_and_expect returns a record with a status, or raises.
SendTextOutcomes == {[ret |-> TRUE], [ret |-> FALSE], [raise |-> WebDriverError]}
SubmitOutcomes == {[ret |-> [status |-> "ok"]], [ret |-> [status |-> "timeout"]],
                   [raise |-> WebDriverError]}

enter_wwid(wait, sent, submit_res) ==
    LET field == safe_wait(wait) IN
    IF Raised(field)
    THEN IF field.raise = Timeout
         THEN [ret |-> [status |-> "failed", reason |-> "wwid_field_timeout"]]
         ELSE field
    ELSE IF Raised(sent) THEN [ret |-> [status |-> "failed", reason |-> "exception"]]
    ELSE IF ~sent.ret THEN [ret |-> [status |-> "failed", reason |-> "wwid_entry_failed"]]
    ELSE IF Raised(submit_res) THEN [ret |-> [status |-> "failed", reason |-> "exception"]]
    ELSE IF submit_res.ret.status # "ok"
    THEN [ret |-> [status |-> "failed", reason |-> "wwid_submit_no_transition"]]
    ELSE [ret |-> [status |-> "ok"]]

call_enter_wwid ==
    /\ pc = "unit"
    /\ \E wait \in WaitOutcomes :
       \E sent \in (IF wait = "element" THEN SendTextOutcomes ELSE {[ret |-> FALSE]}) :
       \E submit_res \in (IF wait = "element" /\ sent = [ret |-> TRUE]
                          THEN SubmitOutcomes ELSE {[ret |-> [status |-> "ok"]]}) :
        call' = [fn |-> "enter_wwid", wait |-> wait,
                 out |-> enter_wwid(wait, sent, submit_res)]
    /\ Called

(***************************************************************************)
(* click_next_in_dialog, round by round.  Time is counted in polling       *)
(* intervals: a round that does not return takes one interval or more      *)
(* (its queries and the sleep of 0.2 s).  `call` holds the call in         *)
(* progress: the clock, the deadline, the rounds started and the result.   *)
(***************************************************************************)
RoundDurations == {1, 2}

\* What one pass of the while loop does to the call.
poll_round_trusts_click(c, outcome, d) ==
    [c EXCEPT !.rounds = Append(@, [at |-> c.now, outcome |-> outcome]),
              !.now = @ + d,
              !.out = IF outcome = "find_raises" THEN [raise |-> WebDriverError]
                      ELSE IF outcome \in {"clicked", "click_failed"} THEN [ret |-> TRUE]
                      ELSE @]

poll_round(c, outcome, d) ==
    [c EXCEPT !.rounds = Append(@, [at |-> c.now, outcome |-> outcome]),
              !.now = @ + d,
              !.out = IF outcome = "find_raises" THEN [raise |-> WebDriverError]
                      ELSE IF outcome = "clicked" THEN [ret |-> TRUE]
                      ELSE @]

\* `end = time.time() + timeout`
next_begin ==
    /\ pc = "next_dialog"
    /\ call = NoCall
    /\ \E timeout \in 0..MaxPollRounds :
        call' = [fn |-> "click_next_in_dialog", now |-> 0, end |-> timeout,
                 rounds |-> <<>>, out |-> NoResult]
    /\ UNCHANGED <<programVars, driverVars, execution_history, toolVars>>

\* `while time.time() < end:` and one pass of its body.
next_round ==
    /\ pc = "next_dialog"
    /\ call # NoCall /\ call.out = NoResult
    /\ call.now < call.end
    /\ \E outcome \in PollOutcomes, d \in RoundDurations :
        call' = poll_round(call, outcome, d)
    /\ UNCHANGED <<programVars, driverVars, execution_history, toolVars>>

\* The loop is left at the deadline: the last dump queries the candidates
\* once more and the function returns False.
next_deadline ==
    /\ pc = "next_dialog"
    /\ call # NoCall /\ call.out = NoResult
    /\ ~(call.now < call.end)
    /\ \E final \in FindOutcomes :
        call' = [call EXCEPT !.out = click_next_in_dialog(<<>>, final)]
    /\ UNCHANGED <<programVars, driverVars, execution_history, toolVars>>

(***************************************************************************)
(* TestDataValidator (utils/test_validation.py).  The test data is what    *)
(* load_mvas returned; a log line is the session header, a line            *)
(* '>>> Starting MVA <token>' or any other line.                           *)
(***************************************************************************)
E2EValidationError == [raise |-> "E2EValidationError"]
Digits == {"5"}
TestData == {load_mvas(lines) : lines \in CsvFiles}
LoadedTokens == UNION {{mvas_[i] : i \in 1..Len(mvas_)} : mvas_ \in TestData}
LogLines ==
    {[kind |-> "session", token |-> <<>>], [kind |-> "other", token |-> <<>>]}
    \cup {[kind |-> "start", token |-> t] : t \in LoadedTokens}
Logs == SeqsUpTo(LogLines, MaxLines)
LogFiles == {"readable", "missing", "unreadable"}

RECURSIVE DigitRun(_)
\* What the group (\d+) captures at the start of a text: the longest run
\* of digits, empty when the text does not start with a digit.
DigitRun(t) ==
    IF t = <<>> \/ t[1] \notin Digits THEN <<>> ELSE <<t[1]>> \o DigitRun(Tail(t))

\* re.findall(pattern, line) over mva_patterns on one line.
findall(line) ==
    IF line.kind = "start" /\ DigitRun(line.token) # <<>>
    THEN {DigitRun(line.token)} ELSE {}

get_mvas_from_test_data(exists, loaded) ==
    IF ~exists THEN E2EValidationError
    ELSE IF loaded = <<>> THEN E2EValidationError
    ELSE [ret |-> loaded]

get_mvas_from_logs(file, log, latest_session_only) ==
    IF file = "missing" THEN {}
    ELSE IF file = "unreadable" THEN {}
    ELSE LET headers == {i \in 1..Len(log) : log[i].kind = "session"}
             latest_session_start ==
                 IF headers = {} THEN 0
                 ELSE CHOOSE i \in headers : \A j \in headers : j <= i
             lines == IF ~latest_session_only THEN log
                      ELSE IF latest_session_start >= 1
                      THEN SubSeq(log, latest_session_start, Len(log))
                      ELSE IF Len(log) > 100
                      THEN SubSeq(log, Len(log) - 99, Len(log)) ELSE log
         IN  UNION {findall(lines[i]) : i \in 1..Len(lines)}

validate_e2e_execution(exists, loaded, file, log, require_all_mvas) ==
    LET data == get_mvas_from_test_data(exists, loaded) IN
    IF Raised(data) THEN data
    ELSE LET expected_mvas == {data.ret[i] : i \in 1..Len(data.ret)}
             processed_mvas == get_mvas_from_logs(file, log, TRUE)
             found_mvas == expected_mvas \cap processed_mvas
             missing_mvas == expected_mvas \ processed_mvas
         IN  IF require_all_mvas /\ missing_mvas # {}
             THEN E2EValidationError
             ELSE [ret |-> [expected_mvas |-> expected_mvas,
                            found_mvas |-> found_mvas,
                            missing_mvas |-> missing_mvas,
                            unexpected_mvas |-> processed_mvas \ expected_mvas]]

call_validate_e2e_execution ==
    /\ pc = "unit"
    /\ \E loaded \in TestData, file \in LogFiles, require_all_mvas \in BOOLEAN :
       \E exists \in (IF loaded = <<>> THEN BOOLEAN ELSE {TRUE}) :
       \E log \in (IF file = "readable" THEN Logs ELSE {<<>>}) :
        call' = [fn |-> "validate_e2e_execution", exists |-> exists,
                 loaded |-> loaded, file |-> file, log |-> log,
                 require_all_mvas |-> require_all_mvas,
                 out |-> validate_e2e_execution(exists, loaded, file, log,
                                                require_all_mvas)]
    /\ Called

(***************************************************************************)
(* PerformanceMonitor (performance_monitor.py): start_metric, end_metric   *)
(* and the wrapper measure_function builds, called in any order on one     *)
(* monitor.  A metric id f"{name}_{n}" is the pair <<name, n>>; a          *)
(* PerformanceMetric carries the number of its creation as its identity,   *)
(* and `finished` says that finish() has set its end_time.                 *)
(***************************************************************************)
MaxMonitorOps == 3
MetricNames == {"f", "g"}
MetricIds == MetricNames \X (0..MaxMonitorOps)
ValueError == [raise |-> "ValueError"]

PerformanceMetric(name, serial) ==
    [name |-> name, serial |-> serial, finished |-> FALSE, error |-> FALSE]

start_metric(m, name) ==
    LET metric_id == <<name, Len(m.metrics)>>
        metric == PerformanceMetric(name, m.started + 1)
    IN  [ret |-> metric_id,
         monitor |-> [m EXCEPT !.started = @ + 1,
                               !.active_metrics = Put(@, metric_id, metric)]]

end_metric(m, metric_id) ==
    IF metric_id \notin DOMAIN m.active_metrics
    THEN [raise |-> "ValueError", monitor |-> m]
    ELSE LET metric == [m.active_metrics[metric_id] EXCEPT !.finished = TRUE] IN
         [ret |-> metric,
          monitor |-> [m EXCEPT
              !.active_metrics = [k \in DOMAIN @ \ {metric_id} |-> @[k]],
              !.metrics = Append(@, metric)]]

\* The wrapper of measure_function around a func that returns
\* ([ret |-> ...]) or raises an Exception ([raise |-> ...]).  `return result`
\* inside the try leaves the function before the else clause can run.
wrapper(m, name, outcome) ==
    LET s == start_metric(m, name) IN
    IF Raised(outcome)
    THEN LET e == end_metric(s.monitor, s.ret) IN
         IF Raised(e)
         THEN [raise |-> e.raise, metric_id |-> s.ret, monitor |-> e.monitor]
         ELSE [raise |-> outcome.raise, metric_id |-> s.ret,
               monitor |-> [e.monitor EXCEPT
                                !.metrics[Len(e.monitor.metrics)].error = TRUE]]
    ELSE [ret |-> outcome.ret, metric_id |-> s.ret, monitor |-> s.monitor]

FuncOutcomes == {[ret |-> "result"], [raise |-> "boom"]}

call_start_metric ==
    /\ pc = "metrics"
    /\ monitor.started < MaxMonitorOps
    /\ \E name \in MetricNames :
        LET r == start_metric(monitor, name) IN
        /\ call' = [fn |-> "start_metric", name |-> name, ret |-> r.ret]
        /\ monitor' = r.monitor
    /\ UNCHANGED <<programVars, driverVars, execution_history, watch>>

call_end_metric ==
    /\ pc = "metrics"
    /\ \E metric_id \in MetricIds :
        LET r == end_metric(monitor, metric_id) IN
        /\ call' = [fn |-> "end_metric", metric_id |-> metric_id,
                    raised |-> Raised(r)]
        /\ monitor' = r.monitor
    /\ UNCHANGED <<programVars, driverVars, execution_history, watch>>

call_measured_function ==
    /\ pc = "metrics"
    /\ monitor.started < MaxMonitorOps
    /\ \E name \in MetricNames, outcome \in FuncOutcomes :
        LET r == wrapper(monitor, name, outcome) IN
        /\ call' = [fn |-> "wrapper", name |-> name, metric_id |-> r.metric_id,
                    serial |-> monitor.started + 1, raised |-> Raised(r)]
        /\ monitor' = r.monitor
    /\ UNCHANGED <<programVars, driverVars, execution_history, watch>>

(***************************************************************************)
(* Resource monitoring of the PerformanceMonitor.  The main thread calls   *)
(* start_resource_monitoring and stop_resource_monitoring; every start     *)
(* that finds _monitoring unset creates a monitor_resources thread.  A     *)
(* thread is at "loop" (about to test `while self._monitoring`), at        *)
(* "sampling" (about to append a sample), "sleeping" (in                   *)
(* time.sleep(interval)) or "exited".  join(timeout=1.0) returns when the  *)
(* thread has exited, or after one second, which a thread spends asleep    *)
(* only when its interval is longer than that.                             *)
(***************************************************************************)
Intervals == {"default", "longer_than_join_timeout"}
SampleOutcomes == {"appended", "raised"}
Running(m) == {i \in 1..Len(m.threads) : m.threads[i].pos # "exited"}

start_resource_monitoring(m, interval) ==
    IF m.monitoring THEN [m EXCEPT !.main = "idle"]
    ELSE [m EXCEPT !.monitoring = TRUE,
                   !.resource_data = 0,
                   !.threads = Append(@, [pos |-> "loop", interval |-> interval]),
                   !.resource_thread = Len(m.threads) + 1,
                   !.main = "idle"]

call_start_resource_monitoring ==
    /\ pc = "resources"
    /\ monitor.main \in {"idle", "stopped"}
    /\ Len(monitor.threads) < MaxMonitorOps
    /\ \E interval \in Intervals :
        monitor' = start_resource_monitoring(monitor, interval)
    /\ UNCHANGED <<programVars, call, driverVars, execution_history, watch>>

\* stop_resource_monitoring up to the join.
call_stop_resource_monitoring ==
    /\ pc = "resources"
    /\ monitor.main \in {"idle", "stopped"}
    /\ monitor' = [monitor EXCEPT
           !.monitoring = FALSE,
           !.main = IF monitor.resource_thread # 0 THEN "joining" ELSE "stopped"]
    /\ UNCHANGED <<programVars, call, driverVars, execution_history, watch>>

\* join(timeout=1.0) returns and with it stop_resource_monitoring.
join_returns ==
    /\ pc = "resources"
    /\ monitor.main = "joining"
    /\ LET t == monitor.threads[monitor.resource_thread] IN
       \/ t.pos = "exited"
       \/ t.pos = "sleeping" /\ t.interval = "longer_than_join_timeout"
    /\ monitor' = [monitor EXCEPT !.main = "stopped"]
    /\ UNCHANGED <<programVars, call, driverVars, execution_history, watch>>

\* One step of a monitor_resources thread.
monitor_resources(m, i, outcome) ==
    LET t == m.threads[i] IN
    CASE t.pos = "loop" ->
            [m EXCEPT !.threads[i].pos = IF m.monitoring THEN "sampling" ELSE "exited"]
      [] t.pos = "sampling" /\ outcome = "appended" ->
            [m EXCEPT !.threads[i].pos = "sleeping",
                      !.resource_data = @ + 1,
                      !.late_samples = IF m.main = "stopped" THEN @ + 1 ELSE @]
      [] t.pos = "sampling" /\ outcome = "raised" ->
            [m EXCEPT !.threads[i].pos = "exited"]
      [] t.pos = "sleeping" ->
            [m EXCEPT !.threads[i].pos = "loop"]

thread_step ==
    /\ pc = "resources"
    /\ \E i \in Running(monitor) :
       \E outcome \in (IF monitor.threads[i].pos = "sampling"
                       THEN SampleOutcomes ELSE {"appended"}) :
        /\ monitor.threads[i].pos = "sampling" /\ outcome = "appended" =>
               monitor.resource_data < MaxMonitorOps
        /\ monitor' = monitor_resources(monitor, i, outcome)
    /\ UNCHANGED <<programVars, call, driverVars, execution_history, watch>>

(***************************************************************************)
(* The PR watcher (tools/maintenance/watch_pr.py).  An event is its        *)
(* SeenKey <<kind, id>>; fetch_events returns the issue comments, the      *)
(* reviews and the review comments on the server, in that order, or        *)
(* raises.  `printed` lists the events print_event has printed.            *)
(***************************************************************************)
MaxPolls == 2
EventOrder == <<<<"issue_comment", 1>>, <<"review", 1>>, <<"review_comment", 1>>>>
EventKeys == {EventOrder[i] : i \in 1..Len(EventOrder)}
FetchOutcomes == {"fetched", "raised"}

\* fetch_events(): the three lists, concatenated in the order main reads them.
fetch_events(server) == SelectSeq(EventOrder, LAMBDA e : e \in server)

\* Somebody comments on or reviews the pull request.
server_event ==
    /\ pc = "watch"
    /\ \E e \in EventKeys \ watch.server :
        watch' = [watch EXCEPT !.server = @ \cup {e}]
    /\ UNCHANGED <<programVars, call, driverVars, execution_history, monitor>>

\* main() up to the loop: the seen set is seeded with the current events
\* unless the initial fetch raises.
watch_seed(w, fetch) ==
    [w EXCEPT !.phase = "polling", !.existing = w.server,
              !.seen = IF fetch = "fetched" THEN w.server ELSE @]

watch_start ==
    /\ pc = "watch"
    /\ watch.phase = "seed"
    /\ \E fetch \in FetchOutcomes : watch' = watch_seed(watch, fetch)
    /\ UNCHANGED <<programVars, call, driverVars, execution_history, monitor>>

\* One pass of the loop.  failAt is the position, among the events not seen
\* yet, of the one whose print_event raises (0: none does); the events
\* before it are marked seen and printed, it is marked seen only, and the
\* events after it are left for the next poll.
watch_poll(w, fetch, failAt) ==
    IF fetch = "raised" THEN [w EXCEPT !.polls = @ + 1]
    ELSE LET new == SelectSeq(fetch_events(w.server), LAMBDA e : e \notin w.seen)
             upto == IF failAt = 0 THEN Len(new) ELSE failAt
             done == IF failAt = 0 THEN Len(new) ELSE failAt - 1
         IN  [w EXCEPT !.polls = @ + 1,
                       !.seen = @ \cup {new[i] : i \in 1..upto},
                       !.printed = @ \o SubSeq(new, 1, done)]

watch_loop ==
    /\ pc = "watch"
    /\ watch.phase = "polling"
    /\ watch.polls < MaxPolls
    /\ \E fetch \in FetchOutcomes :
       \E failAt \in (IF fetch = "fetched"
                      THEN 0..Cardinality(watch.server \ watch.seen) ELSE {0}) :
        watch' = watch_poll(watch, fetch, failAt)
    /\ UNCHANGED <<programVars, call, driverVars, execution_history, monitor>>

UnitNext ==
    \/ call_click_element
    \/ call_create_new_complaint
    \/ call_send_text
    \/ call_get_or_create_driver
    \/ call_quit_driver
    \/ driver_fixture_setup
    \/ driver_fixture_teardown
    \/ call_core_get_or_create_driver
    \/ call_core_quit_driver
    \/ call_load_mvas
    \/ call_select_opcode
    \/ call_get_config
    \/ call_execute_workflow
    \/ call_make_integration_decision
    \/ call_enter_wwid
    \/ call_validate_e2e_execution
    \/ next_begin
    \/ next_round
    \/ next_deadline
    \/ call_start_metric
    \/ call_end_metric
    \/ call_measured_function
    \/ call_start_resource_monitoring
    \/ call_stop_resource_monitoring
    \/ join_returns
    \/ thread_step
    \/ server_event
    \/ watch_start
    \/ watch_loop

UnitSpec == UnitInit /\ [][UnitNext]_vars

(***************************************************************************)
(* Observations used by the properties.                                    *)
(***************************************************************************)
InTrace(e) == \E i \in DOMAIN trace : trace[i] = e
Count(e) == Cardinality({i \in DOMAIN trace : trace[i] = e})
Returned(fn) == results[fn] # NoResult
HpwRes == results["handle_pm_workitems"]
AecRes == results["associate_existing_complaint"]
FwRes == results["finalize_workitem"]
CpwRes == results["complete_pm_workitem"]
Outcomes == {"ok", "failed", "raised"}
EvSet(steps) == {Ev(st, o) : st \in steps, o \in Outcomes}
Skipped == [status |-> "skipped_no_complaint", mva |-> mva]

\* Every trace entry of the 'Add Work Item' click, the Complaint Resolver,
\* Finalize and the recovery navigation.
ComplaintPathEvents ==
    EvSet({"click Add Work Item", "find complaint tiles", "tile.click",
           "click_next_in_dialog", "complete_mileage_dialog", "select_opcode",
           "click Create Work Item", "find work item tiles"})
    \cup {"call associate_existing_complaint", "return associate_existing_complaint",
          "call finalize_workitem", "return finalize_workitem",
          "call navigate_back_to_home"}

(***************************************************************************)
(* C1.  As stated: with no open PM work item and no PM complaint tile, a   *)
(* run of handle_pm_workitems in which every UI action succeeds returns    *)
(* status 'closed' (having gone through the create-new-complaint          *)
(* sub-flow).                                                              *)
(***************************************************************************)
C1_Original ==
    ( /\ Returned("handle_pm_workitems")
      /\ items = <<>>
      /\ tileState \in {"NO_TILES", "TILES_NO_PM"}
      /\ ~uiFailed
      /\ results["navigate_back_to_home"] = [value |-> TRUE] )
    => HpwRes.status = "closed"

\* C1, amended: with no open PM work item, 'Add Work Item' clicked and no PM
\* complaint tile, handle_pm_workitems enters neither a complaint-creation
\* sub-flow nor Finalize; the resolver returns skipped_no_complaint, the
\* controller calls navigate_back_to_home once and, when that returns,
\* returns the resolver's {status: skipped_no_complaint, mva}, never 'closed'.
C1_Amended ==
    tileState \in {"NO_TILES", "TILES_NO_PM"} =>
        /\ AecRes = Skipped
        /\ ~InTrace("call finalize_workitem")
        /\ \A o \in Outcomes : ~InTrace(Ev("click Create Work Item", o))
        /\ Returned("handle_pm_workitems") =>
            /\ HpwRes = Skipped
            /\ Count("call navigate_back_to_home") = 1

C1_Witness ==
    /\ Returned("handle_pm_workitems")
    /\ items = <<>>
    /\ tileState = "TILES_NO_PM"
    /\ ~uiFailed
    /\ HpwRes = Skipped

(***************************************************************************)
(* C2.  When get_work_items returned one or more open PM items, the trace  *)
(* of handle_pm_workitems holds no 'Add Work Item' click, no resolver,     *)
(* Finalize or complaint-dialog step: it goes from the query straight to   *)
(* complete_pm_workitem and returns that procedure's result.               *)
(***************************************************************************)
C2_OpenItemCompletesDirectly ==
    items # <<>> =>
        /\ \A i \in DOMAIN trace : trace[i] \notin ComplaintPathEvents
        /\ Len(trace) >= 3
        /\ SubSeq(trace, 1, 3) = <<"call handle_pm_workitems", Ev("get_work_items", "ok"),
                                   "call complete_pm_workitem">>
        /\ ~Returned("associate_existing_complaint")
        /\ Returned("handle_pm_workitems") =>
            /\ Returned("complete_pm_workitem")
            /\ HpwRes = CpwRes

C2_Witness ==
    /\ items # <<>>
    /\ Returned("handle_pm_workitems")
    /\ HpwRes = [status |-> "ok", reason |-> "completed_open_pm", mva |-> mva]

(***************************************************************************)
(* C3.  As stated: no exception propagates out of handle_pm_workitems, and *)
(* every call returns exactly one Flow Result.                             *)
(***************************************************************************)
C3_NoExceptionEscapes ==
    /\ "handle_pm_workitems" \notin escaped
    /\ Count("return handle_pm_workitems") <= Count("call handle_pm_workitems")
    /\ Returned("handle_pm_workitems") <=> Count("return handle_pm_workitems") = 1

(***************************************************************************)
(* C4.  As stated: when the resolver ran and returned a result whose       *)
(* status is not 'associated', handle_pm_workitems returns status          *)
(* 'skipped_no_complaint'.                                                 *)
(***************************************************************************)
C4_Original ==
    ( /\ Returned("handle_pm_workitems")
      /\ Returned("associate_existing_complaint")
      /\ AecRes.status # "associated" )
    => HpwRes.status = "skipped_no_complaint"

\* C4, amended: when the resolver returned a result whose status is not
\* 'associated', handle_pm_workitems does not call Finalize and, when it
\* returns, returns the resolver's result unchanged: skipped_no_complaint
\* (after one navigate_back_to_home call) if that is the resolver's status,
\* and the resolver's 'failed' result, without navigation, otherwise.
C4_Amended ==
    (Returned("associate_existing_complaint") /\ AecRes.status # "associated") =>
        /\ ~InTrace("call finalize_workitem")
        /\ AecRes.status \in {"skipped_no_complaint", "failed"}
        /\ Returned("handle_pm_workitems") =>
            /\ HpwRes = AecRes
            /\ (HpwRes.status = "skipped_no_complaint")
                   <=> (Count("call navigate_back_to_home") = 1)
            /\ (HpwRes.status = "failed")
                   <=> (Count("call navigate_back_to_home") = 0)

C4_Witness ==
    /\ Returned("handle_pm_workitems")
    /\ AecRes = Failed("tile_click", mva)
    /\ HpwRes = AecRes

(***************************************************************************)
(* C5.  As stated: the start markers are a prefix of the loaded list, and  *)
(* the loop never ends before every vehicle of the list was started.       *)
(***************************************************************************)
C5_EveryVehicleStarted ==
    /\ started = SubSeq(mvas, 1, Len(started))
    /\ pc \in {"complete", "aborted"} => started = mvas

(***************************************************************************)
(* C6.  As stated: finalize_workitem clicks 'Create Work Item', then       *)
(* checks for a work-item tile, then runs the completion procedure, stops  *)
(* at the first step that fails, returns 'closed' only if all three        *)
(* succeeded and returns 'failed' in every other case.                     *)
(***************************************************************************)
C6_FinalizeOrderedAndReturns ==
    InTrace("call finalize_workitem") =>
        LET clicked == InTrace(Ev("click Create Work Item", "ok"))
            tiles == InTrace(Ev("find work item tiles", "ok"))
            completed == Returned("complete_pm_workitem") /\ CpwRes.status = "ok"
        IN  /\ (\E o \in Outcomes : InTrace(Ev("find work item tiles", o))) => clicked
            /\ InTrace("call complete_pm_workitem") => tiles
            /\ "finalize_workitem" \notin escaped
            /\ Returned("finalize_workitem") =>
                /\ FwRes.status \in {"closed", "failed"}
                /\ FwRes.status = "closed" <=> (clicked /\ tiles /\ completed)

(***************************************************************************)
(* C7.  complete_pm_workitem returns {ok, completed_open_pm} exactly when  *)
(* opening the card, clicking 'Mark Complete' and the completion dialog    *)
(* all succeeded; otherwise it returns 'failed' with the reason of the     *)
(* first sub-step that broke: open_pm_card, mark_complete_button or        *)
(* dialog_exception, and no later sub-step was attempted.                  *)
(***************************************************************************)
C7_CompletionResult ==
    Returned("complete_pm_workitem") =>
        LET opened == InTrace(Ev("open_pm_workitem_card", "ok"))
            marked == InTrace(Ev("click Mark Complete", "ok"))
            dialog == InTrace(Ev("complete_work_item_dialog", "ok"))
            attempted(st) == \E o \in Outcomes : InTrace(Ev(st, o))
        IN  /\ attempted("open_pm_workitem_card")
            /\ attempted("click Mark Complete") <=> opened
            /\ attempted("complete_work_item_dialog") <=> marked
            /\ CpwRes = [status |-> "ok", reason |-> "completed_open_pm", mva |-> mva]
                   <=> (opened /\ marked /\ dialog)
            /\ ~(opened /\ marked /\ dialog) =>
                   CpwRes = Failed(IF ~opened THEN "open_pm_card"
                                   ELSE IF ~marked THEN "mark_complete_button"
                                   ELSE "dialog_exception", mva)

C7_Witness ==
    /\ Returned("complete_pm_workitem")
    /\ InTrace(Ev("complete_work_item_dialog", "failed"))
    /\ CpwRes = Failed("dialog_exception", mva)

(***************************************************************************)
(* C8.  When no open PM work item exists and the 'Add Work Item' click     *)
(* fails, handle_pm_workitems returns {failed, add_btn, mva} and neither   *)
(* the Complaint Resolver nor Finalize is invoked.                         *)
(***************************************************************************)
C8_AddButtonFailure ==
    InTrace(Ev("click Add Work Item", "failed")) =>
        /\ items = <<>>
        /\ HpwRes = Failed("add_btn", mva)
        /\ ~InTrace("call associate_existing_complaint")
        /\ ~InTrace("call finalize_workitem")
        /\ ~Returned("associate_existing_complaint")
        /\ ~Returned("finalize_workitem")

C8_Witness ==
    /\ InTrace(Ev("click Add Work Item", "failed"))
    /\ pc = "main_result"
    /\ HpwRes = Failed("add_btn", mva)

(***************************************************************************)
(* The steps of associate_existing_complaint after the tile search.        *)
(***************************************************************************)
AssociateSteps == <<"tile.click", "click_next_in_dialog", "complete_mileage_dialog",
                    "select_opcode">>
StepPositions(st) == {i \in DOMAIN trace : trace[i] \in EvSet({st})}
StepDone(k) == StepPositions(AssociateSteps[k]) # {}
StepOk(k) == InTrace(Ev(AssociateSteps[k], "ok"))
AllStepsOk == \A k \in DOMAIN AssociateSteps : StepOk(k)
\* The steps run at most once each, in order, each only after the one
\* before it succeeded.
StepsInOrder ==
    \A k \in DOMAIN AssociateSteps :
        /\ Cardinality(StepPositions(AssociateSteps[k])) <= 1
        /\ (k > 1 /\ StepDone(k)) =>
            /\ StepOk(k - 1)
            /\ \A i \in StepPositions(AssociateSteps[k - 1]),
                  j \in StepPositions(AssociateSteps[k]) : i < j
\* The tile clicked is the first PM tile of the query's result.
FirstPMTileClicked ==
    (clickedTile # 0 /\ complaints # <<>>) =>
        /\ IsPMComplaint([pos |-> clickedTile, text |-> complaints[clickedTile]])
        /\ \A j \in 1..(clickedTile - 1) :
               ~IsPMComplaint([pos |-> j, text |-> complaints[j]])
StepReasons == {"tile_click", "complaint_next", "mileage", "opcode"}

(***************************************************************************)
(* C9.  As stated: with a PM complaint tile found, the resolver clicks the *)
(* first matching tile and runs tile click, dialog Next, mileage dialog,   *)
(* opcode in order, stopping at the first failure; it returns 'associated' *)
(* only if all four succeeded and otherwise 'failed' with reason           *)
(* tile_click, complaint_next, mileage or opcode.                          *)
(***************************************************************************)
C9_Original ==
    tileState = "PM_TILE_FOUND" =>
        /\ StepsInOrder
        /\ FirstPMTileClicked
        /\ Returned("associate_existing_complaint") =>
            /\ AecRes.status = "associated" <=> AllStepsOk
            /\ ~AllStepsOk => (AecRes.status = "failed" /\ AecRes.reason \in StepReasons)

\* The reason reported for step k ending with the given outcome.
StepFailureReason(k, outcome) ==
    IF k = 1 THEN "tile_click"
    ELSE IF outcome = "raised" THEN "exception"
    ELSE IF k = 2 THEN "complaint_next"
    ELSE IF k = 3 THEN "mileage"
    ELSE "opcode"

\* C9, amended: as stated, except that the reason of the 'failed' result is
\* tile_click, complaint_next, mileage or opcode when that step reported a
\* failure, and 'exception' when the dialog-Next polling or the opcode
\* selection raised.
C9_Amended ==
    tileState = "PM_TILE_FOUND" =>
        /\ StepsInOrder
        /\ FirstPMTileClicked
        /\ Returned("associate_existing_complaint") =>
            /\ AecRes.status = "associated" <=> AllStepsOk
            /\ AllStepsOk => AecRes = [status |-> "associated", mva |-> mva]
            /\ \A k \in DOMAIN AssociateSteps : \A o \in {"failed", "raised"} :
                   InTrace(Ev(AssociateSteps[k], o)) =>
                       AecRes = Failed(StepFailureReason(k, o), mva)
            /\ \E k \in DOMAIN AssociateSteps : StepDone(k)

C9_Witness ==
    /\ tileState = "PM_TILE_FOUND"
    /\ clickedTile = 2
    /\ InTrace(Ev("select_opcode", "raised"))
    /\ AecRes = Failed("exception", mva)

(***************************************************************************)
(* C10.  As stated: an exception raised in any step of the resolver is     *)
(* converted to exactly {failed, exception, mva}.                          *)
(***************************************************************************)
ResolverSteps == {"find complaint tiles", "tile.click", "click_next_in_dialog",
                  "complete_mileage_dialog", "select_opcode"}

C10_Original ==
    \A st \in ResolverSteps :
        InTrace(Ev(st, "raised")) =>
            /\ Returned("associate_existing_complaint")
            /\ AecRes = Failed("exception", mva)

\* The reason reported when the given step raises.
ExceptionReason(st) ==
    IF st = "find complaint tiles" THEN "tile_search"
    ELSE IF st = "tile.click" THEN "tile_click"
    ELSE "exception"

\* C10, amended: an exception raised inside the resolver never reaches the
\* caller and no step is run twice; it is converted to a 'failed' result
\* carrying the mva whose reason is tile_search when the tile search raised,
\* tile_click when the tile click raised, and exception when the dialog-Next
\* polling or the opcode selection raised (the mileage step cannot raise).
C10_Amended ==
    /\ "associate_existing_complaint" \notin escaped
    /\ \A st \in ResolverSteps :
        /\ Cardinality(StepPositions(st)) <= 1
        /\ InTrace(Ev(st, "raised")) =>
            /\ Returned("associate_existing_complaint")
            /\ AecRes = Failed(ExceptionReason(st), mva)
    /\ ~InTrace(Ev("complete_mileage_dialog", "raised"))

C10_Witness ==
    /\ InTrace(Ev("find complaint tiles", "raised"))
    /\ AecRes = Failed("tile_search", mva)

(***************************************************************************)
(* C11.  create_new_complaint clicks 'Add/Create New Complaint', 'Yes',    *)
(* 'PM', 'Submit Complaint' in that order; the click of a step is made     *)
(* only if the step before it succeeded; the result is 'created' exactly   *)
(* when the four steps succeeded, and otherwise 'failed' with the reason   *)
(* of the first failing step (add_btn for the first).                      *)
(***************************************************************************)
CncStep(button) ==
    CASE button \in {"Add New Complaint", "Create New Complaint"} -> 1
      [] button = "Yes" -> 2
      [] button = "PM" -> 3
      [] button = "Submit Complaint" -> 4

CncReasons == <<"add_btn", "drivability", "complaint_type", "submit_info">>

CncStepOk(cl, k) == \E i \in 1..Len(cl) : CncStep(cl[i].button) = k /\ cl[i].ok

C11_CreateStepsInOrder ==
    call.fn = "create_new_complaint" =>
        LET cl == call.clicks
            failing == {k \in 1..4 : ~CncStepOk(cl, k)}
            first == CHOOSE k \in failing : \A j \in failing : k <= j
        IN  /\ cl # <<>>
            /\ cl[1].button = "Add New Complaint"
            /\ \A i \in 1..(Len(cl) - 1) :
                   \/ /\ CncStep(cl[i + 1].button) = CncStep(cl[i].button) + 1
                      /\ CncStepOk(cl, CncStep(cl[i].button))
                   \/ /\ cl[i].button = "Add New Complaint"
                      /\ cl[i + 1].button = "Create New Complaint"
                      /\ ~cl[i].ok
            /\ call.res.status = "created" <=> failing = {}
            /\ failing # {} =>
                   /\ call.res.status = "failed"
                   /\ call.res.reason = CncReasons[first]

\* The 'PM' click fails after the fallback button and 'Yes' were clicked.
C11_Witness ==
    /\ call.fn = "create_new_complaint"
    /\ Len(call.clicks) = 4
    /\ call.clicks[2].button = "Create New Complaint"
    /\ call.res.status = "failed"
    /\ call.res.reason = "complaint_type"

(***************************************************************************)
(* C12.  click_element returns a boolean for every outcome of the browser; *)
(* it returns true only when its last el.click() succeeded; it makes a     *)
(* second locate+click exactly when the first click was stale, and never   *)
(* a third; every other failure gives false.                               *)
(***************************************************************************)
C12_ClickElement ==
    call.fn = "click_element" =>
        /\ call.ret \in BOOLEAN
        /\ call.clicks \in 0..2
        /\ call.ret =>
               \/ call.clicks = 1 /\ call.c1 = "done"
               \/ call.clicks = 2 /\ call.c2 = "done"
        /\ call.clicks = 2 <=>
               (call.w1 = "element" /\ call.c1 = Stale /\ call.w2 = "element")
        /\ call.w1 # "element" => (~call.ret /\ call.clicks = 0)
        /\ (call.w1 = "element" /\ call.c1 \notin {"done", Stale}) =>
               (~call.ret /\ call.clicks = 1)
        /\ (call.w1 = "element" /\ call.c1 = Stale
               /\ (call.w2 # "element" \/ call.c2 # "done")) => ~call.ret
        /\ (call.w1 = "element" /\ call.c1 = "done") => call.ret

\* The first click is stale and the retry clicks.
C12_Witness ==
    /\ call.fn = "click_element"
    /\ call.c1 = Stale
    /\ call.clicks = 2
    /\ call.ret

FlowResultSteps == {"handle_pm_workitems", "associate_existing_complaint",
                    "finalize_workitem", "complete_pm_workitem",
                    "complete_work_item_dialog"}

CarriesStatusAndMva(res, m) ==
    /\ "status" \in DOMAIN res
    /\ "mva" \in DOMAIN res
    /\ res.mva = m

C14_EveryResultCarriesMva ==
    /\ \A f \in FlowResultSteps :
           results[f] # NoResult => CarriesStatusAndMva(results[f], mva)
    /\ call.fn = "create_new_complaint" => CarriesStatusAndMva(call.res, call.mva)

(***************************************************************************)
(* C15.  When the loaded list is empty, handle_pm_workitems is never       *)
(* called, no vehicle is started, no exception escapes and no failure is   *)
(* recorded: the run ends without entering the loop body.                  *)
(***************************************************************************)
C15_EmptyListCleanRun ==
    mvas = <<>> =>
        /\ pc \in {"main", "returned", "loop", "complete"}
        /\ started = <<>>
        /\ ~InTrace("call handle_pm_workitems")
        /\ results = NoResults
        /\ escaped = {}
        /\ ~uiFailed

\* main returned on the empty list.
C15_Witness ==
    /\ mvas = <<>>
    /\ pc = "returned"
    /\ trace = <<>>

(***************************************************************************)
(* C16.  Over every sequence of get_or_create_driver and quit_driver       *)
(* calls at most one browser session exists; a call creates a session only *)
(* when the singleton handle was unset; two consecutive                    *)
(* get_or_create_driver calls that return, return the same instance.       *)
(***************************************************************************)
C16_SingletonSession ==
    /\ Cardinality(sessions) <= 1
    /\ \A i \in 1..Len(driverCalls) :
           (driverCalls[i].op = "get_or_create_driver" /\ driverCalls[i].out.created)
               => driverCalls[i].before = NoDriver
    /\ \A i \in 1..(Len(driverCalls) - 1) :
           ( /\ driverCalls[i].op = "get_or_create_driver"
             /\ driverCalls[i + 1].op = "get_or_create_driver"
             /\ ~Raised(driverCalls[i].out)
             /\ ~Raised(driverCalls[i + 1].out) )
               => driverCalls[i + 1].out.ret = driverCalls[i].out.ret

\* create, reuse, quit, create again: the second session replaces the first.
C16_Witness ==
    /\ Len(driverCalls) = 4
    /\ driverCalls[1].op = "get_or_create_driver"
    /\ driverCalls[2].op = "get_or_create_driver"
    /\ ~Raised(driverCalls[2].out)
    /\ driverCalls[2].out.ret = 1
    /\ driverCalls[3].op = "quit_driver"
    /\ driverCalls[4].op = "get_or_create_driver"
    /\ sessions = {2}

(***************************************************************************)
(* C17.  As stated: load_mvas returns, in file order, the stripped first   *)
(* column of every line that is neither a comment line (starting with '#') *)
(* nor blank or whitespace-only; the list holds no empty string and no     *)
(* token beginning with '#'.                                               *)
(***************************************************************************)
IsCommentLine(line) == StartsWith(line, "#")
IsBlankLine(line) == \A i \in 1..Len(line) : line[i] = " "

FirstColumn(line) == IF Fields(line) = <<>> THEN <<>> ELSE Fields(line)[1]

ExpectedMvas(lines) ==
    LET kept == SelectSeq(lines, LAMBDA l : ~IsCommentLine(l) /\ ~IsBlankLine(l))
    IN  [i \in DOMAIN kept |-> Strip(FirstColumn(kept[i]))]

C17_LoadMvasFiltered ==
    call.fn = "load_mvas" =>
        /\ call.ret = ExpectedMvas(call.lines)
        /\ \A i \in 1..Len(call.ret) :
               call.ret[i] # <<>> /\ ~StartsWith(call.ret[i], "#")

(***************************************************************************)
(* C18.  As stated: select_opcode returns {failed, opcode_not_found}       *)
(* exactly when no tile's label equals the target text; when one or more   *)
(* tiles match it scrolls to and clicks only the first match and returns   *)
(* status ok.                                                              *)
(***************************************************************************)
OpcodeNotFound == [status |-> "failed", reason |-> "opcode_not_found"]
FirstOf(S) == CHOOSE i \in S : \A j \in S : i <= j

C18_Original ==
    call.fn = "select_opcode" =>
        LET matches == {i \in 1..Len(call.labels) : call.labels[i] = call.code_text}
        IN  /\ ~Raised(call.out)
            /\ call.out.ret = OpcodeNotFound <=> matches = {}
            /\ matches # {} =>
                   /\ call.out.ret.status = "ok"
                   /\ call.out.scrolled = FirstOf(matches)
                   /\ call.out.clicked = FirstOf(matches)

\* C18, amended.  A label matches when it equals the target after
\* whitespace normalisation.  select_opcode raises exactly when the query
\* raises, or a tile matches and the scroll or the click raises.  When it
\* returns, the result is {failed, opcode_not_found} exactly when no label
\* matches; otherwise the first match, and only it, was scrolled to and
\* clicked and the status is ok.
C18_Amended ==
    call.fn = "select_opcode" =>
        LET matches == {i \in 1..Len(call.labels) :
                            NormalizeSpace(call.labels[i]) = call.code_text}
        IN  /\ Raised(call.out) <=>
                   \/ call.find # "found"
                   \/ matches # {} /\ (call.script # "done" \/ call.click # "done")
            /\ ~Raised(call.out) =>
                   /\ call.out.ret = OpcodeNotFound <=> matches = {}
                   /\ matches # {} =>
                          /\ call.out.ret.status = "ok"
                          /\ call.out.scrolled = FirstOf(matches)
                          /\ call.out.clicked = FirstOf(matches)
                   /\ matches = {} => (call.out.scrolled = 0 /\ call.out.clicked = 0)

\* Two labels match 'PM Gas'; the first one is clicked.
C18_Witness ==
    /\ call.fn = "select_opcode"
    /\ call.code_text = txtPMGas
    /\ call.labels = <<txtPMGasPadded, txtPMGas>>
    /\ ~Raised(call.out)
    /\ call.out.ret.status = "ok"
    /\ call.out.clicked = 1

(***************************************************************************)
(* C19.  As stated: get_config returns the configured value when the       *)
(* (possibly nested) key exists; the supplied default when the key is      *)
(* missing and a default was given, falsy defaults included; and raises    *)
(* KeyError when the key is missing and no default was given.              *)
(***************************************************************************)
RECURSIVE KeyExists(_, _)
KeyExists(d, key) ==
    \/ key = <<>>
    \/ /\ d.t = "dict"
       /\ Head(key) \in DOMAIN d.v
       /\ KeyExists(d.v[Head(key)], Tail(key))

RECURSIVE Configured(_, _)
Configured(d, key) == IF key = <<>> THEN d ELSE Configured(d.v[Head(key)], Tail(key))

C19_Original ==
    call.fn = "get_config" =>
        LET exists == KeyExists(PyDict(call.config), call.key) IN
        /\ exists => call.out = [ret |-> Configured(PyDict(call.config), call.key)]
        /\ (~exists /\ call.given) => call.out = [ret |-> call.default]
        /\ (~exists /\ ~call.given) => call.out = [raise |-> "KeyError"]

\* C19, amended.  For username, password and login_id a non-blank
\* environment variable wins over the file and the default.  Otherwise the
\* configured value is returned when the key exists; a default other than
\* None when the key is missing; and KeyError is raised when the key is
\* missing and the default is None, given or not.
C19_Amended ==
    call.fn = "get_config" =>
        LET exists == KeyExists(PyDict(call.config), call.key)
            overridden == /\ call.key \in {<<k>> : k \in EnvOverrides}
                          /\ call.env \notin {EnvUnset, <<>>, <<" ">>}
        IN  /\ overridden => call.out = [ret |-> PyStr(call.env)]
            /\ (~overridden /\ exists) =>
                   call.out = [ret |-> Configured(PyDict(call.config), call.key)]
            /\ (~overridden /\ ~exists /\ call.default # PyNone) =>
                   call.out = [ret |-> call.default]
            /\ (~overridden /\ ~exists /\ call.default = PyNone) =>
                   call.out = [raise |-> "KeyError"]

\* A nested key is missing and the default is the empty string.
C19_Witness ==
    /\ call.fn = "get_config"
    /\ call.key = <<"logging", "missing">>
    /\ call.config = ConfigNested
    /\ call.default = PyStr(<<>>)
    /\ call.out = [ret |-> PyStr(<<>>)]

\* The steps of the execution a call of execute_workflow returned.
WorkflowCalled == call.fn = "execute_workflow"
StepsOf(execution) == {execution.steps[i] : i \in 1..Len(execution.steps)}

\* C20: every step a workflow of the executor produced (integration
\* assessment, test validation, code analysis) that is marked completed has
\* its error_message unset.
C20_CompletedStepHasNoError ==
    WorkflowCalled =>
        \A step \in StepsOf(call.out) :
            step.completed => step.error_message = NoneStr

\* An integration assessment in which one phase failed and a later phase of
\* the engine completed.
C20_Witness ==
    /\ WorkflowCalled
    /\ call.detection_result.workflow_type = "INTEGRATION_ASSESSMENT"
    /\ Len(call.out.steps) = 6
    /\ ~call.out.steps[1].completed
    /\ call.out.steps[1].error_message # NoneStr
    /\ call.out.steps[4].completed
    /\ call.out.steps[4].error_message = NoneStr

\* C21: every call of execute_workflow appends the execution it returns to
\* the end of execution_history, exactly one and with end_time set, whether
\* the workflow body returned or raised; when the body raised, nothing
\* propagates to the caller and the returned execution has success = False.
C21_EveryCallIsRecorded ==
    [][(call'.fn = "execute_workflow"
        /\ <<call, execution_history>>' # <<call, execution_history>>) =>
          /\ ~call'.raised
          /\ execution_history' = Append(execution_history, call'.out)
          /\ call'.out.end_time # NoTime
          /\ (Raised(call'.env) => ~call'.out.success)]_vars

\* An executor called twice: the first body raised, the second succeeded.
C21_Witness ==
    /\ Len(execution_history) = 2
    /\ "error_message" \in DOMAIN execution_history[1]
    /\ ~execution_history[1].success
    /\ execution_history[1].end_time # NoTime
    /\ execution_history[2].success
    /\ execution_history[2] = call.out

\* A call of execute_workflow that ran the integration assessment.
IntegrationAssessed ==
    /\ WorkflowCalled
    /\ call.detection_result.workflow_type = "INTEGRATION_ASSESSMENT"
    /\ ~Raised(call.env)
PhaseOrder ==
    <<"validate_paths", "detect_branch", "analyze_history",
      "complete_test_execution", "e2e_validation", "integration_decision">>
StepNames(execution) == [i \in 1..Len(execution.steps) |-> execution.steps[i].name]

\* C22: an integration assessment appends one step per phase, each phase
\* once, in the order path validation, branch detection, history analysis,
\* test execution, E2E validation, integration decision, whichever of the
\* phases failed.
C22_SixPhasesInOrder ==
    IntegrationAssessed => StepNames(call.out) = PhaseOrder

\* An assessment whose history analysis and E2E validation failed, with the
\* phases after them run.
C22_Witness ==
    /\ IntegrationAssessed
    /\ Len(call.out.steps) = 6
    /\ ~call.out.steps[3].completed
    /\ call.out.steps[4].completed
    /\ ~call.out.steps[5].completed
    /\ call.out.steps[6].completed

\* C23: after an integration assessment, completed holds exactly when every
\* required step is completed, success exactly when completed holds and no
\* step has an error_message set; so success implies completed.
C23_CompletedAndSuccess ==
    IntegrationAssessed =>
        LET steps == StepsOf(call.out) IN
        /\ call.out.completed <=> \A step \in steps : step.required => step.completed
        /\ call.out.success <=>
              (call.out.completed /\ \A step \in steps : step.error_message = NoneStr)
        /\ call.out.success => call.out.completed

\* An assessment that is not completed because one phase raised an
\* exception with an empty text, all other phases having completed.
C23_Witness ==
    /\ IntegrationAssessed
    /\ ~call.out.completed
    /\ ~call.out.success
    /\ call.out.steps[3].error_message = ""
    /\ \A i \in {1, 2, 4, 5, 6} : call.out.steps[i].completed

\* The evidence flags as the decision reads them.
DecisionCalled == call.fn = "make_integration_decision"
FlagTruthy(evidence, key) ==
    key \in DOMAIN evidence /\ evidence[key] \notin {"False", ""}
AllFlagsTruthy(evidence) == \A key \in RequirementKeys : FlagTruthy(evidence, key)
E2eIs(evidence, value) ==
    "e2e_validated" \in DOMAIN evidence /\ evidence["e2e_validated"] = value
SeqRange(q) == {q[i] : i \in 1..Len(q)}

\* C24: make_integration_decision recommends READY with confidence HIGH
\* exactly when documentation_reviewed, tests_executed and history_analyzed
\* are truthy and e2e_validated is True, READY_WITH_CAVEAT exactly when the
\* three are truthy and e2e_validated is 'skipped', NOT_READY otherwise;
\* missing_requirements lists exactly the falsy flags, each once.
C24_IntegrationDecision ==
    DecisionCalled =>
        LET ev == call.evidence
            out == call.out
        IN  /\ out.recommendation = "READY" <=>
                  (AllFlagsTruthy(ev) /\ E2eIs(ev, "True"))
            /\ out.recommendation = "READY" => out.confidence = "HIGH"
            /\ out.recommendation = "READY_WITH_CAVEAT" <=>
                  (AllFlagsTruthy(ev) /\ E2eIs(ev, "skipped"))
            /\ out.recommendation \in {"READY", "READY_WITH_CAVEAT", "NOT_READY"}
            /\ SeqRange(out.missing_requirements)
                  = {key \in RequirementKeys : ~FlagTruthy(ev, key)}
            /\ Len(out.missing_requirements)
                  = Cardinality(SeqRange(out.missing_requirements))

\* The decision with the three flags set and E2E validation skipped.
C24_Witness ==
    /\ DecisionCalled
    /\ AllFlagsTruthy(call.evidence)
    /\ E2eIs(call.evidence, "skipped")
    /\ call.out.recommendation = "READY_WITH_CAVEAT"
    /\ call.out.missing_requirements = <<>>

\* C25: when handle_pm_workitems has entered the completion branch because
\* get_work_items found an open PM item, and the page is as that query saw
\* it, every tile that counted as an open PM item is a tile the query of
\* open_pm_workitem_card selects, so that query finds a card.
C25_OpenItemHasCard ==
    (pc = "cpw_open_card" /\ items # <<>>) =>
        /\ \A i \in 1..Len(workItems) :
              IsOpenPMItem(workItems[i]) => IsOpenPMCard(workItems[i])
        /\ SelectSeq(workItems, IsOpenPMCard) # <<>>

\* A step in which navigate_back_to_home returns to its caller.
NavReturns == pc = "nav" /\ pc' \notin {"nav", "aborted"}
NavValue == results["navigate_back_to_home"].value

\* C26: navigate_back_to_home clicks the back arrow at most max_clicks
\* times; it returns True only on the home screen, and it returns True when
\* the max_clicks-th click is the one that landed on the home screen.
C26_HomeWithinMaxClicks ==
    [][/\ navI' <= max_clicks
       /\ NavReturns =>
            /\ NavValue' => depth = 0
            /\ (navI = max_clicks /\ depth = 0) => NavValue']_vars

\* The loop has acted on the result handle_pm_workitems returned.
MainDispatched == Returned("handle_pm_workitems") /\ pc # "main_result"
MainNavigated == InTrace("main: call navigate_back_to_home")

\* C27: the main loop calls navigate_back_to_home after a vehicle's flow
\* exactly when the controller's result has status 'skipped_no_complaint',
\* and then the controller has already called it once itself; after a
\* 'failed' result the loop calls no navigation.
C27_LoopNavigatesOnSkipOnly ==
    /\ MainNavigated => MainDispatched
    /\ MainDispatched =>
          /\ MainNavigated <=> (HpwRes.status = "skipped_no_complaint")
          /\ MainNavigated => Count("call navigate_back_to_home") = 1
          /\ HpwRes.status = "failed" => ~MainNavigated
    /\ Count("main: call navigate_back_to_home") <= 1

\* The loop's navigation after a skip has returned, the second one for this
\* vehicle.
C27_Witness ==
    /\ pc = "loop"
    /\ MainNavigated
    /\ HpwRes = Skipped
    /\ Count("call navigate_back_to_home") = 1

\* C28: enter_wwid returns {failed, wwid_field_timeout} when the wait for
\* the WWID input times out, and never raises to its caller.
C28_EnterWwidReturnsStatus ==
    call.fn = "enter_wwid" =>
        /\ ~Raised(call.out)
        /\ call.wait = Timeout =>
              call.out.ret = [status |-> "failed", reason |-> "wwid_field_timeout"]

\* The call the driver manager served last.
LastDriverCall == driverCalls[Len(driverCalls)]

\* C29: every handle get_or_create_driver returns is a live session, one on
\* which quit() has not been called, over every sequence of
\* get_or_create_driver calls, quit_driver calls and setups and teardowns
\* of the `driver` fixture.
C29_ReturnedHandleIsLive ==
    ( /\ pc = "driver"
      /\ driverCalls # <<>>
      /\ LastDriverCall.op = "get_or_create_driver"
      /\ ~Raised(LastDriverCall.out) )
        => LastDriverCall.out.ret \in sessions

\* C30: after quit_driver returned or raised the singleton handle is unset,
\* also when quit() raised, so that the next get_or_create_driver that
\* returns has created a fresh session; without a driver quit_driver does
\* nothing.
C30_QuitUnsetsHandle ==
    \A i \in 1..Len(driverCalls) :
        driverCalls[i].op = "quit_driver" =>
            /\ driverCalls[i].out.driver = NoDriver
            /\ driverCalls[i].before = NoDriver =>
                  (~Raised(driverCalls[i].out) /\ ~driverCalls[i].out.quit_called)
            /\ ( /\ i < Len(driverCalls)
                 /\ driverCalls[i + 1].op = "get_or_create_driver"
                 /\ ~Raised(driverCalls[i + 1].out) )
                   => driverCalls[i + 1].out.created

\* C31: an integration assessment run through execute_workflow ends with
\* final_recommendation unset or 'NOT_READY': no phase writes the evidence
\* keys documentation_reviewed or tests_executed, so neither READY nor
\* READY_WITH_CAVEAT is recommended, whatever the phases' outcomes.
C31_NeverReady ==
    (WorkflowCalled /\ call.detection_result.workflow_type = "INTEGRATION_ASSESSMENT") =>
        /\ call.out.final_recommendation \in {NoneStr, "NOT_READY"}
        /\ {"documentation_reviewed", "tests_executed"}
              \cap DOMAIN call.out.evidence_collected = {}
        /\ \A e \in SeqRange(execution_history) :
              e.workflow_type = "INTEGRATION_ASSESSMENT" =>
                  e.final_recommendation \in {NoneStr, "NOT_READY"}

\* An assessment whose six phases completed with E2E validation passed, and
\* which is recommended NOT_READY.
C31_Witness ==
    /\ IntegrationAssessed
    /\ \A i \in 1..6 : call.out.steps[i].completed
    /\ call.out.success
    /\ E2eIs(call.out.evidence_collected, "True")
    /\ FlagTruthy(call.out.evidence_collected, "history_analyzed")
    /\ call.out.final_recommendation = "NOT_READY"

\* The metrics of the monitor that are finished, by identity.
FinishedSerials ==
    {monitor.metrics[i].serial : i \in {j \in 1..Len(monitor.metrics) :
                                           monitor.metrics[j].finished}}
ActiveSerials ==
    {monitor.active_metrics[k].serial : k \in DOMAIN monitor.active_metrics}

\* C32: after a call of a function wrapped by measure_function, whether it
\* returned or raised, the metric of that call is in `metrics` with its end
\* time set and is no longer in `active_metrics`.
C32_MeasuredCallEndsMetric ==
    call.fn = "wrapper" =>
        /\ call.serial \in FinishedSerials
        /\ call.serial \notin ActiveSerials

\* The lines of the latest session of a log: from the last session header
\* on, the whole log when it has none.
LatestSession(log) ==
    LET headers == {i \in 1..Len(log) : log[i].kind = "session"} IN
    IF headers = {} THEN 1..Len(log)
    ELSE {i \in 1..Len(log) : \A j \in headers : j <= i}
HasMarker(log, id) ==
    \E i \in LatestSession(log) : log[i].kind = "start" /\ log[i].token = id

\* C33: on existing, non-empty test data, validate_e2e_execution with
\* require_all_mvas=True returns exactly when every identifier the loader
\* returned has a '>>> Starting MVA <id>' marker in the latest session of
\* the log, and raises E2EValidationError otherwise; found_mvas and
\* missing_mvas partition the expected set.
C33_ValidatesEveryLoadedId ==
    (/\ call.fn = "validate_e2e_execution"
     /\ call.require_all_mvas
     /\ call.exists /\ call.loaded # <<>>) =>
        LET expected == SeqRange(call.loaded) IN
        /\ ~Raised(call.out) <=> \A id \in expected : HasMarker(call.log, id)
        /\ Raised(call.out) => call.out = E2EValidationError
        /\ ~Raised(call.out) =>
              /\ call.out.ret.found_mvas \cup call.out.ret.missing_mvas = expected
              /\ call.out.ret.found_mvas \cap call.out.ret.missing_mvas = {}

\* How often the watcher has printed an event.
TimesPrinted(e) == Cardinality({i \in 1..Len(watch.printed) : watch.printed[i] = e})

\* C34: the watcher prints each event (kind and id) at most once, also
\* across polls that fail part-way, and never prints an event that existed
\* when the watcher started.
C34_PrintsNewEventsOnce ==
    \A e \in EventKeys :
        /\ TimesPrinted(e) <= 1
        /\ e \in watch.existing => TimesPrinted(e) = 0

\* A call of click_next_in_dialog, in progress or ended.
NextCalled == call.fn = "click_next_in_dialog" /\ "rounds" \in DOMAIN call
RoundOutcomes == {call.rounds[i].outcome : i \in 1..Len(call.rounds)}
NoNewRoundAfterDeadline ==
    /\ \A i \in 1..Len(call.rounds) : call.rounds[i].at < call.end
    /\ Len(call.rounds) <= call.end
TrueOnlyAfterClick ==
    call.out = [ret |-> TRUE] =>
        /\ call.rounds # <<>>
        /\ call.rounds[Len(call.rounds)].outcome = "clicked"

\* C35 as stated: click_next_in_dialog always ends by returning: True only
\* after a click on a displayed, enabled 'Next' candidate succeeded, False
\* when no such click succeeded before the deadline; it starts no polling
\* round once the timeout has elapsed.
C35_Original ==
    NextCalled =>
        /\ NoNewRoundAfterDeadline
        /\ TrueOnlyAfterClick
        /\ call.out # NoResult => ~Raised(call.out)
        /\ (call.out # NoResult /\ "clicked" \notin RoundOutcomes) =>
               call.out = [ret |-> FALSE]

\* C35 amended: the call ends by raising exactly when a query for the
\* candidates raised (in a round or in the last dump); otherwise it returns
\* True only after a successful click and False when the deadline passed
\* without one.  No round starts once the timeout has elapsed, so the
\* rounds are at most as many as the timeout has polling intervals.
C35_Amended ==
    NextCalled =>
        /\ NoNewRoundAfterDeadline
        /\ TrueOnlyAfterClick
        /\ call.out = [ret |-> FALSE] =>
               /\ ~(call.now < call.end)
               /\ RoundOutcomes \cap {"clicked", "find_raises"} = {}
        /\ Raised(call.out) =>
               \/ call.rounds # <<>>
                  /\ call.rounds[Len(call.rounds)].outcome = "find_raises"
               \/ ~(call.now < call.end)
                  /\ RoundOutcomes \cap {"clicked", "find_raises"} = {}
        /\ call.out = NoResult =>
               RoundOutcomes \cap {"clicked", "find_raises"} = {}

\* A call that polled twice without a successful click (a click that
\* failed, then no enabled candidate) and returned False at the deadline.
C35_Witness ==
    /\ NextCalled
    /\ Len(call.rounds) = 2
    /\ call.rounds[1].outcome = "click_failed"
    /\ call.rounds[2].outcome = "none_enabled"
    /\ call.out = [ret |-> FALSE]

\* The metrics in `metrics`, by identity, and the metrics created so far.
EndedSerials == {monitor.metrics[i].serial : i \in 1..Len(monitor.metrics)}
CreatedSerials == 1..monitor.started

\* C36: the id start_metric returns is not the id of a metric that is still
\* active, so no active metric is overwritten: every metric started is
\* either still active or has been ended, and it is ended once; end_metric
\* on an id that is not active raises ValueError and changes nothing.
C36_ActiveIdsUnique ==
    pc = "metrics" =>
        /\ CreatedSerials = ActiveSerials \cup EndedSerials
        /\ ActiveSerials \cap EndedSerials = {}
        /\ Cardinality(EndedSerials) = Len(monitor.metrics)
        /\ Cardinality(ActiveSerials) = Cardinality(DOMAIN monitor.active_metrics)
        /\ (call.fn = "end_metric" /\ ~call.raised) =>
               call.metric_id \notin DOMAIN monitor.active_metrics

\* C37: across any sequence of start_resource_monitoring and
\* stop_resource_monitoring calls, at most one monitor_resources thread is
\* running at any time, and once stop_resource_monitoring has returned no
\* thread appends a further sample (until monitoring is started again).
C37_OneMonitoringThread ==
    /\ Cardinality(Running(monitor)) <= 1
    /\ monitor.late_samples = 0

====
